---------------------------- MODULE Spec2Model ----------------------------
(***************************************************************************)
(* A model of the confidential-computing lab: the mock key-management      *)
(* service (server/security/kms_mock.py) and the simulated enclave         *)
(* (server/simulation/enclave_runtime.py).                                 *)
(*                                                                         *)
(* Conventions.  A Python `bytes` value is a sequence of integers 0..255,  *)
(* a Python `str` is a sequence of code points, so that encoding, hex      *)
(* formatting, base64 and JSON are computed and not assumed.  The hash     *)
(* primitives of hashlib/hmac are library code: they are modelled by a     *)
(* small deterministic mixing function with the real output length.        *)
(***************************************************************************)
EXTENDS Integers, Sequences, FiniteSets, TLC

(***************************************************************************)
(* Bounds of the model.                                                    *)
(***************************************************************************)
\* longest plaintext handed to encrypt (more than two 32-byte keystream blocks)
MaxPlainLen == 66
\* longest plaintext whose token is tampered with
MaxTamperLen == 2
\* the most vCPUs launched on one VM
\* callers that run at the same time
NumThreads == 2

MaxVcpus == 2

(***************************************************************************)
(* Program constants.                                                      *)
(***************************************************************************)
\* iv = os.urandom(16); data[:16]
IvLen == 16
\* rest[-32:], dklen=32: the length of a sha256 digest
MacLen == 32

(***************************************************************************)
(* Python slicing and byte helpers.                                        *)
(***************************************************************************)
Min(a, b) == IF a < b THEN a ELSE b
Max(a, b) == IF a > b THEN a ELSE b

\* s[:n] for n >= 0
Take(s, n) == SubSeq(s, 1, Min(n, Len(s)))
\* s[n:] for n >= 0
Drop(s, n) == SubSeq(s, Min(n, Len(s)) + 1, Len(s))
\* s[:-n] for n > 0
DropLast(s, n) == SubSeq(s, 1, Max(Len(s) - n, 0))
\* s[-n:] for n > 0
TakeLast(s, n) == SubSeq(s, Max(Len(s) - n, 0) + 1, Len(s))

RECURSIVE XorBits(_, _, _)
XorBits(x, y, n) ==
  IF n = 0 THEN 0
  ELSE (((x % 2) + (y % 2)) % 2) + (2 * XorBits(x \div 2, y \div 2, n - 1))

\* p ^ k on two bytes
Xor8(x, y) == XorBits(x, y, 8)

\* bytes(p ^ k for p, k in zip(a, b)): zip stops at the shorter operand
ZipXor(a, b) == [i \in 1..Min(Len(a), Len(b)) |-> Xor8(a[i], b[i])]

\* counter.to_bytes(4, "big")
ToBytes4(c) ==
  << (c \div 16777216) % 256, (c \div 65536) % 256, (c \div 256) % 256, c % 256 >>

\* str.encode("utf-8") on code points below 0x800, characters lo..hi of s
RECURSIVE Utf8EncodeRange(_, _, _)
Utf8EncodeRange(s, lo, hi) ==
  IF lo > hi THEN << >>
  ELSE IF lo = hi THEN
    IF s[lo] < 128 THEN << s[lo] >>
    ELSE << 192 + (s[lo] \div 64), 128 + (s[lo] % 64) >>
  ELSE LET mid == (lo + hi) \div 2
       IN  Utf8EncodeRange(s, lo, mid) \o Utf8EncodeRange(s, mid + 1, hi)

Utf8Encode(s) == Utf8EncodeRange(s, 1, Len(s))

(***************************************************************************)
(* hashlib / hmac.  Sha256 stands for hashlib.sha256(data).digest(): a     *)
(* 32-byte value computed from every byte of the input and its length.     *)
(***************************************************************************)
\* one byte x absorbed into the accumulator h
Mix(h, x, m, p) == ((h * m) + x + 1) % p

\* four bytes, data[i..i+3], absorbed into h
Mix4(h, data, i, m, p) ==
  Mix(Mix(Mix(Mix(h, data[i], m, p), data[i + 1], m, p), data[i + 2], m, p),
      data[i + 3], m, p)

\* the bytes data[i..] absorbed into the accumulators a and b (both are
\* natural numbers: the test on them makes each step compute them)
RECURSIVE Absorb(_, _, _, _)
Absorb(data, i, a, b) ==
  IF a + b >= 0 /\ i > Len(data) THEN << a, b >>
  ELSE IF i + 7 <= Len(data) THEN
    Absorb(data, i + 8,
           Mix4(Mix4(a, data, i, 263, 65521), data, i + 4, 263, 65521),
           Mix4(Mix4(b, data, i, 521, 65519), data, i + 4, 521, 65519))
  ELSE Absorb(data, i + 1, Mix(a, data[i], 263, 65521), Mix(b, data[i], 521, 65519))

\* the 32 bytes of the digest, from the two accumulators
Digest(a, b) ==
  [i \in 1..32 |->
     CASE i = 1 -> a \div 256
       [] i = 2 -> a % 256
       [] i = 3 -> b \div 256
       [] i = 4 -> b % 256
       [] OTHER -> ((a * i) + (b * (i + 3)) + (i * i)) % 256]

DigestOf(st) == Digest(st[1], st[2])

Sha256(data) == DigestOf(Absorb(data, 1, 1, 7))

\* hmac.new(key, msg, hashlib.sha256).digest(): inner and outer keyed hash
HmacSha256(key, msg) == Sha256(<< 92 >> \o key \o Sha256(<< 54 >> \o key \o msg))

\* hashlib.pbkdf2_hmac("sha256", password, salt, 200_000, dklen=32)
Pbkdf2(password, salt) == Sha256(<< 200 >> \o salt \o HmacSha256(password, salt))

\* one hexadecimal digit, lower case
HexChar(n) == IF n < 10 THEN 48 + n ELSE 87 + n

\* hasher.hexdigest(): two characters per byte
HexOf(bytes) ==
  [i \in 1..(2 * Len(bytes)) |->
     IF i % 2 = 1 THEN HexChar(bytes[(i + 1) \div 2] \div 16)
     ELSE HexChar(bytes[i \div 2] % 16)]

(***************************************************************************)
(* base64.urlsafe_b64encode / base64.urlsafe_b64decode.  A token is a str: *)
(* a sequence of code points.                                              *)
(***************************************************************************)
\* the pad character "="
PadChar == 61

\* the standard alphabet: A-Z a-z 0-9 + /
B64Char(n) ==
  IF n < 26 THEN 65 + n
  ELSE IF n < 52 THEN 71 + n
  ELSE IF n < 62 THEN n - 4
  ELSE IF n = 62 THEN 43 ELSE 47

\* binascii's decoding table: the index of a character, 64 for any other
B64Index(c) ==
  IF c >= 65 /\ c <= 90 THEN c - 65
  ELSE IF c >= 97 /\ c <= 122 THEN c - 71
  ELSE IF c >= 48 /\ c <= 57 THEN c + 4
  ELSE IF c = 43 THEN 62
  ELSE IF c = 47 THEN 63
  ELSE 64

\* _urlsafe_encode_translation: "+/" -> "-_"
UrlsafeEncodeChar(c) == IF c = 43 THEN 45 ELSE IF c = 47 THEN 95 ELSE c
\* _urlsafe_decode_translation: "-_" -> "+/"
UrlsafeDecodeChar(c) == IF c = 45 THEN 43 ELSE IF c = 95 THEN 47 ELSE c

\* the k-th character (k in 1..4) of the quantum that starts at data[i]
B64Quantum(data, i, k) ==
  LET n  == Len(data) - i + 1
      b1 == data[i]
      b2 == IF n >= 2 THEN data[i + 1] ELSE 0
      b3 == IF n >= 3 THEN data[i + 2] ELSE 0
  IN  CASE k = 1 -> B64Char(b1 \div 4)
        [] k = 2 -> B64Char(((b1 % 4) * 16) + (b2 \div 16))
        [] k = 3 -> IF n >= 2 THEN B64Char(((b2 % 16) * 4) + (b3 \div 64)) ELSE PadChar
        [] OTHER -> IF n >= 3 THEN B64Char(b3 % 64) ELSE PadChar

\* binascii.b2a_base64: four characters for every three bytes, "=" padded
B64Encode(data) ==
  [j \in 1..(4 * ((Len(data) + 2) \div 3)) |->
     B64Quantum(data, (3 * ((j - 1) \div 4)) + 1, ((j - 1) % 4) + 1)]

\* base64.urlsafe_b64encode(data).decode("ascii")
UrlsafeB64Encode(data) ==
  LET std == B64Encode(data)
  IN  [i \in 1..Len(std) |-> UrlsafeEncodeChar(std[i])]

DecodeError == [ok |-> FALSE, data |-> << >>]

IsB64Data(c) == B64Index(c) < 64

\* the bytes of n alphabet characters: three for every four characters, and
\* of an unfinished quantum of two or three characters one or two, its
\* left-over bits dropped
B64Bytes(chars, n) ==
  [j \in 1..((3 * (n \div 4)) + (IF n % 4 >= 2 THEN (n % 4) - 1 ELSE 0)) |->
     LET q  == (4 * ((j - 1) \div 3)) + 1
         x1 == B64Index(chars[q])
         x2 == B64Index(chars[q + 1])
         x3 == IF q + 2 <= n THEN B64Index(chars[q + 2]) ELSE 0
         x4 == IF q + 3 <= n THEN B64Index(chars[q + 3]) ELSE 0
     IN  CASE (j - 1) % 3 = 0 -> (x1 * 4) + (x2 \div 16)
           [] (j - 1) % 3 = 1 -> ((x2 % 16) * 16) + (x3 \div 4)
           [] OTHER -> ((x3 % 4) * 64) + x4]

\* binascii.a2b_base64 in its default, non-strict mode.  Characters outside
\* the alphabet are skipped; quad_pos is the number of alphabet characters
\* read so far modulo 4, pads the number of "=" since the last of them; a "="
\* with quad_pos >= 2 and quad_pos + pads >= 4 ends the input; at the end of
\* the input an unfinished quantum is an error.
DataBefore(s, i) == {j \in 1..(i - 1) : IsB64Data(s[j])}

QuadPos(s, i) == Cardinality(DataBefore(s, i)) % 4

PadsAt(s, i) ==
  Cardinality({j \in 1..i : s[j] = PadChar /\ \A d \in DataBefore(s, i) : d < j})

\* the positions of a "=" that would end the input
PadStops(s) ==
  {i \in 1..Len(s) : /\ s[i] = PadChar
                     /\ QuadPos(s, i) >= 2
                     /\ QuadPos(s, i) + PadsAt(s, i) >= 4}

\* the data of the alphabet characters read; ended says a "=" ended the input
A2bChars(chars, ended) ==
  IF ~ended /\ Len(chars) % 4 # 0 THEN DecodeError
  ELSE [ok |-> TRUE, data |-> B64Bytes(chars, Len(chars))]

A2bUpTo(s, stops) ==
  A2bChars(SelectSeq(Take(s, IF stops = {} THEN Len(s)
                             ELSE (CHOOSE i \in stops : \A k \in stops : i <= k) - 1),
                     IsB64Data),
           stops # {})

A2bBase64(s) == A2bUpTo(s, PadStops(s))

\* base64.urlsafe_b64decode(token.encode("ascii")): a code point above 127
\* makes encode raise UnicodeEncodeError, a ValueError like binascii.Error
UrlsafeB64Decode(token) ==
  IF \E i \in 1..Len(token) : token[i] > 127 THEN DecodeError
  ELSE A2bBase64([i \in 1..Len(token) |-> UrlsafeDecodeChar(token[i])])

(***************************************************************************)
(* KMSMock: keystream, encrypt, decrypt.                                   *)
(***************************************************************************)
RECURSIVE KeystreamLoop(_, _, _, _)
KeystreamLoop(material, length, stream, counter) ==
  IF Len(stream) < length
    THEN KeystreamLoop(material, length,
                       stream \o Sha256(material \o ToBytes4(counter)), counter + 1)
    ELSE Take(stream, length)

\* a keystream of one block only
ExpandKeystreamOneBlock(key, iv, length) ==
  Take(IF 0 < length THEN Sha256((key \o iv) \o ToBytes4(0)) ELSE << >>, length)

\* KMSMock._expand_keystream
ExpandKeystream(key, iv, length) == KeystreamLoop(key \o iv, length, << >>, 0)

\* lines 51-52 of encrypt: the tag over iv + ciphertext, and the token
EncryptTagged(key, iv, ciphertext) ==
  UrlsafeB64Encode((iv \o ciphertext) \o HmacSha256(key, iv \o ciphertext))

\* KMSMock.encrypt, with the iv that os.urandom(16) returned
Encrypt(key, plaintext, iv) ==
  EncryptTagged(key, iv, ZipXor(plaintext, ExpandKeystream(key, iv, Len(plaintext))))

\* The two ValueErrors of KMSMock.decrypt: "Token was not valid base64" is
\* MalformedToken, "Ciphertext integrity check failed" is IntegrityError.
Failure(kind) == [status |-> kind, value |-> << >>]
Success(v) == [status |-> "ok", value |-> v]

\* lines 63-67 of decrypt: the tag is compared, then the keystream applied
DecryptChecked(key, iv, ciphertext, mac) ==
  IF HmacSha256(key, iv \o ciphertext) # mac THEN Failure("IntegrityError")
  ELSE Success(ZipXor(ciphertext, ExpandKeystream(key, iv, Len(ciphertext))))

\* lines 61-62 of decrypt: iv, rest = data[:16], data[16:] and
\* ciphertext, mac = rest[:-32], rest[-32:]
DecryptRest(key, iv, rest) ==
  DecryptChecked(key, iv, DropLast(rest, MacLen), TakeLast(rest, MacLen))

DecryptData(key, dec) ==
  IF ~dec.ok THEN Failure("MalformedToken")
  ELSE DecryptRest(key, Take(dec.data, IvLen), Drop(dec.data, IvLen))

\* KMSMock.decrypt
Decrypt(key, token) == DecryptData(key, UrlsafeB64Decode(token))

(***************************************************************************)
(* KMSMock.derive_key and its cache.                                       *)
(***************************************************************************)
\* the master secret of the process-wide kms_singleton, fixed at start-up
MasterSecret == Sha256(<< 109 >>)

\* f"{identity}:{context}"
CacheKey(identity, context) == (identity \o << 58 >>) \o context

\* the derivation of lines 36-38, without the cache
DeriveFresh(identity, context) ==
  LET salt == Sha256(Utf8Encode(context))
      key  == Pbkdf2(Utf8Encode(identity), salt)
  IN  HmacSha256(MasterSecret, key)

\* an insert that stores the first half of the key only
PopulateHalf(c, ck, wrapped) ==
  [key   |-> wrapped,
   cache |-> [k \in DOMAIN c \cup {ck} |-> IF k = ck THEN Take(wrapped, 16) ELSE c[k]]]

\* self._cache[cache_key] = wrapped; return wrapped
Populate(c, ck, wrapped) ==
  [key   |-> wrapped,
   cache |-> [k \in DOMAIN c \cup {ck} |-> IF k = ck THEN wrapped ELSE c[k]]]

\* a derive_key that never consults the cache
DeriveKeyNoLookup(c, identity, context) ==
  Populate(c, CacheKey(identity, context), DeriveFresh(identity, context))

\* KMSMock.derive_key on cache c: the returned key and the cache afterwards
DeriveKey(c, identity, context) ==
  LET ck == CacheKey(identity, context)
  IN  IF ck \in DOMAIN c THEN [key |-> c[ck], cache |-> c]
      ELSE Populate(c, ck, DeriveFresh(identity, context))

(***************************************************************************)
(* json.dumps(data, separators=(",", ":")) and json.loads, on the data of  *)
(* seal: a dict of str to str, here the sequence of its <<key, value>>     *)
(* items in insertion order.                                               *)
(***************************************************************************)
\* "\uXXXX": the four lower-case hexadecimal digits of a code point
Hex4(c) ==
  << HexChar((c \div 4096) % 16), HexChar((c \div 256) % 16),
     HexChar((c \div 16) % 16), HexChar(c % 16) >>

\* json.encoder ESCAPE_ASCII / ESCAPE_DCT: one character of a string
JsonEscapeChar(c) ==
  CASE c = 34 -> << 92, 34 >>
    [] c = 92 -> << 92, 92 >>
    [] c = 10 -> << 92, 110 >>
    [] c = 13 -> << 92, 114 >>
    [] c = 9  -> << 92, 116 >>
    [] c = 8  -> << 92, 98 >>
    [] c = 12 -> << 92, 102 >>
    [] OTHER  -> IF c >= 32 /\ c <= 126 THEN << c >> ELSE << 92, 117 >> \o Hex4(c)

RECURSIVE JsonEscape(_, _)
JsonEscape(s, i) ==
  IF i > Len(s) THEN << >> ELSE JsonEscapeChar(s[i]) \o JsonEscape(s, i + 1)

\* py_encode_basestring_ascii: the quoted, escaped string
JsonString(s) == (<< 34 >> \o JsonEscape(s, 1)) \o << 34 >>

RECURSIVE JsonItems(_, _)
JsonItems(items, i) ==
  IF i > Len(items) THEN << >>
  ELSE (((IF i > 1 THEN << 44 >> ELSE << >>) \o JsonString(items[i][1]))
         \o << 58 >>) \o (JsonString(items[i][2]) \o JsonItems(items, i + 1))

\* json.dumps(data, separators=(",", ":"))
JsonDumps(items) == (<< 123 >> \o JsonItems(items, 1)) \o << 125 >>

\* the value of a hexadecimal digit, 16 for any other character
HexVal(c) ==
  IF c >= 48 /\ c <= 57 THEN c - 48
  ELSE IF c >= 97 /\ c <= 102 THEN c - 87
  ELSE IF c >= 65 /\ c <= 70 THEN c - 55
  ELSE 16

JsonError == [ok |-> FALSE, value |-> << >>, next |-> 0]

\* json.decoder BACKSLASH: the character an escape letter stands for, 0 if none
JsonUnescape(e) ==
  CASE e = 34 -> 34 [] e = 92 -> 92 [] e = 47 -> 47 [] e = 98 -> 8
    [] e = 102 -> 12 [] e = 110 -> 10 [] e = 114 -> 13 [] e = 116 -> 9
    [] OTHER -> 0

\* json.decoder py_scanstring from position i, just after the opening quote:
\* the string and the position after its closing quote
RECURSIVE ScanString(_, _, _)
ScanString(s, i, acc) ==
  IF Len(acc) >= 0 /\ i > Len(s) THEN JsonError
  ELSE IF s[i] = 34 THEN [ok |-> TRUE, value |-> acc, next |-> i + 1]
  ELSE IF s[i] < 32 THEN JsonError
  ELSE IF s[i] # 92 THEN ScanString(s, i + 1, Append(acc, s[i]))
  ELSE IF i + 1 > Len(s) THEN JsonError
  ELSE IF s[i + 1] = 117 THEN
    IF i + 5 > Len(s) \/ \E k \in 2..5 : HexVal(s[i + k]) = 16 THEN JsonError
    ELSE ScanString(s, i + 6,
           Append(acc, (HexVal(s[i + 2]) * 4096) + (HexVal(s[i + 3]) * 256)
                         + (HexVal(s[i + 4]) * 16) + HexVal(s[i + 5])))
  ELSE IF JsonUnescape(s[i + 1]) = 0 THEN JsonError
  ELSE ScanString(s, i + 2, Append(acc, JsonUnescape(s[i + 1])))

\* dict[key] = value: a present key keeps its place and takes the new value
DictSet(items, key, value) ==
  IF \E j \in 1..Len(items) : items[j][1] = key
    THEN [j \in 1..Len(items) |->
            IF items[j][1] = key THEN << key, value >> ELSE items[j]]
    ELSE Append(items, << key, value >>)

\* json.decoder JSONObject from position i, the first character of a key
RECURSIVE ScanItems(_, _, _)

\* after a value: "}" ends the object, "," is followed by the next item
ScanValue(s, acc, key, val) ==
  IF ~val.ok \/ val.next > Len(s) THEN JsonError
  ELSE IF s[val.next] = 125
    THEN [ok |-> TRUE, value |-> DictSet(acc, key.value, val.value),
          next |-> val.next + 1]
  ELSE IF s[val.next] = 44
    THEN ScanItems(s, val.next + 1, DictSet(acc, key.value, val.value))
  ELSE JsonError

\* after a key: ":" and the opening quote of the value
ScanKey(s, acc, key) ==
  IF ~key.ok \/ key.next + 1 > Len(s) THEN JsonError
  ELSE IF s[key.next] # 58 \/ s[key.next + 1] # 34 THEN JsonError
  ELSE ScanValue(s, acc, key, ScanString(s, key.next + 2, << >>))

ScanItems(s, i, acc) ==
  IF Len(acc) >= 0 /\ (i > Len(s) \/ s[i] # 34) THEN JsonError
  ELSE ScanKey(s, acc, ScanString(s, i + 1, << >>))

\* the object must be all of the text
JsonWhole(s, r) == IF r.ok /\ r.next = Len(s) + 1 THEN r ELSE JsonError

\* json.loads of a text without white space that holds an object of strings
JsonLoads(s) ==
  IF Len(s) < 2 \/ s[1] # 123 THEN JsonError
  ELSE JsonWhole(s, IF s[2] = 125 THEN [ok |-> TRUE, value |-> << >>, next |-> 3]
                    ELSE ScanItems(s, 2, << >>))

\* bytes.decode("utf-8") from byte i on, for code points below 0x800
RECURSIVE Utf8DecodeFrom(_, _, _)
Utf8DecodeFrom(b, i, acc) ==
  IF Len(acc) >= 0 /\ i > Len(b) THEN [ok |-> TRUE, value |-> acc]
  ELSE IF b[i] < 128 THEN Utf8DecodeFrom(b, i + 1, Append(acc, b[i]))
  ELSE IF b[i] >= 194 /\ b[i] <= 223 /\ i + 1 <= Len(b)
          /\ b[Min(i + 1, Len(b))] >= 128 /\ b[Min(i + 1, Len(b))] <= 191
    THEN Utf8DecodeFrom(b, i + 2,
                        Append(acc, ((b[i] - 192) * 64) + (b[i + 1] - 128)))
  ELSE [ok |-> FALSE, value |-> << >>]

Utf8Decode(b) == Utf8DecodeFrom(b, 1, << >>)

(***************************************************************************)
(* SimulatedEnclave.  An enclave is the record of its attributes; a method *)
(* is an operator from the enclave e and the cache c of kms_singleton to   *)
(* the Outcome of the call: the enclave and the cache afterwards, the      *)
(* status ("ok" or the kind of the exception raised), the value returned,  *)
(* and the method that ran (did) with its arguments (arg).                 *)
(*                                                                         *)
(* Exceptions: ValueError of load and seal is InvalidArgument, RuntimeError*)
(* "Enclave not initialized" is InvalidState, AttributeError "Unknown      *)
(* ECALL" is UnknownOperation, KeyError "No sealed data for identity" is   *)
(* NoSealedData, the ValueErrors of decrypt are as above, and a failure of *)
(* decode or json.loads is DecodeError.                                    *)
(***************************************************************************)
\* what a call that raised returns
NoValue == << >>

Outcome(e, c, status, value, did, arg) ==
  [encl |-> e, cache |-> c, status |-> status, value |-> value,
   did |-> did, arg |-> arg]

\* SimulatedEnclave.__init__
NewEnclave(name, signer) ==
  [name |-> name, signer |-> signer, pages |-> << >>, loaded |-> FALSE,
   mrenclave |-> << >>, sealed_store |-> << >>]

\* MemoryPage(address=i * 0x1000, size=len(seg), data=bytes(seg)), i from 0
MemoryPageOf(i, seg) == [address |-> i * 4096, size |-> Len(seg), data |-> seg]

\* the data of pages[i..], as the hasher.update calls feed it
RECURSIVE PagesData(_, _)
PagesData(pages, i) ==
  IF i > Len(pages) THEN << >> ELSE pages[i].data \o PagesData(pages, i + 1)

\* SimulatedEnclave._measure
Measure(e, pages) ==
  HexOf(Sha256((PagesData(pages, 1) \o Utf8Encode(e.name)) \o Utf8Encode(e.signer)))
    \o << >>

\* lines 78-81 of load, mr being what _measure returned
LoadMeasured(e, c, segments, pages, mr) ==
  Outcome([e EXCEPT !.pages = pages, !.mrenclave = mr, !.loaded = TRUE],
          c, "ok", mr, "load", << segments >>)

\* lines 74-78 of load: self.pages is set, then measured
LoadPages(e, c, segments, pages) ==
  LoadMeasured(e, c, segments, pages, Measure([e EXCEPT !.pages = pages], pages))

\* load without the tests of lines 68-72
LoadUnchecked(e, c, segments) ==
  LoadPages(e, c, segments,
            [i \in 1..Len(segments) |-> MemoryPageOf(i - 1, segments[i])])

\* SimulatedEnclave.load; both ValueErrors are the spec's InvalidSegments
Load(e, c, segments) ==
  IF segments = << >> \/ \E i \in 1..Len(segments) : Len(segments[i]) = 0
    THEN Outcome(e, c, "InvalidArgument", NoValue, "load", << segments >>)
    ELSE LoadPages(e, c, segments,
                   [i \in 1..Len(segments) |-> MemoryPageOf(i - 1, segments[i])])

\* SimulatedEnclave.enter; the handler "mrenclave" is lambda e: e.mrenclave
Enter(e, c, handler) ==
  IF ~e.loaded THEN Outcome(e, c, "InvalidState", NoValue, "enter", << handler >>)
  ELSE Outcome(e, c, "ok", e.mrenclave, "enter", << handler >>)

\* SimulatedEnclave.ocall
Ocall(e, c, name, payload) ==
  Outcome(e, c, "ok", [call |-> name, echo |-> payload], "ocall", << name, payload >>)

\* a store that keeps the token an identity has already
StoreTokenIfAbsent(store, identity, token) ==
  [id \in DOMAIN store \cup {identity} |->
     IF id \in DOMAIN store THEN store[id] ELSE token]

\* self.sealed_store[identity] = token
StoreToken(store, identity, token) ==
  [id \in DOMAIN store \cup {identity} |->
     IF id = identity THEN token ELSE store[id]]

\* a key context that is the same for every measurement
SealContextFixed(e) == e.signer

\* context=self.mrenclave, of seal and of unseal
SealContext(e) == e.mrenclave

\* the end of seal, lines 118-120: the token is stored and returned
SealStore(e, c, identity, data, token) ==
  Outcome([e EXCEPT !.sealed_store = StoreToken(@, identity, token)],
          c, "ok", token, "seal", << identity, data >>)

\* seal from line 116 on, d being what derive_key returned
SealWithKey(e, identity, data, iv, d) ==
  SealStore(e, d.cache, identity, data,
            Encrypt(d.key, Utf8Encode(JsonDumps(data)), iv) \o << >>)

\* SimulatedEnclave.seal, with the iv that os.urandom(16) returned
Seal(e, c, identity, data, iv) ==
  IF identity = << >>
    THEN Outcome(e, c, "InvalidArgument", NoValue, "seal", << identity, data >>)
    ELSE SealWithKey(e, identity, data, iv, DeriveKey(c, identity, SealContext(e)))

LoadsText(text) == IF ~text.ok THEN JsonError ELSE JsonLoads(text.value)

\* json.loads(data.decode("utf-8"))
LoadsBytes(b) == LoadsText(Utf8Decode(b))

\* the end of unseal, line 129, obj being what json.loads made of the bytes
UnsealParsed(e, c, identity, obj) ==
  IF ~obj.ok THEN Outcome(e, c, "DecodeError", NoValue, "unseal", << identity >>)
  ELSE Outcome(e, c, "ok", obj.value, "unseal", << identity >>)

\* unseal after line 128, r being what decrypt returned or raised
UnsealDecrypted(e, c, identity, r) ==
  IF r.status # "ok" THEN Outcome(e, c, r.status, NoValue, "unseal", << identity >>)
  ELSE UnsealParsed(e, c, identity, LoadsBytes(r.value))

\* unseal from line 128 on, d being what derive_key returned
UnsealWithKey(e, identity, d) ==
  UnsealDecrypted(e, d.cache, identity, Decrypt(d.key, e.sealed_store[identity]))

\* SimulatedEnclave.unseal
Unseal(e, c, identity) ==
  IF identity \notin DOMAIN e.sealed_store
    THEN Outcome(e, c, "NoSealedData", NoValue, "unseal", << identity >>)
    ELSE UnsealWithKey(e, identity, DeriveKey(c, identity, SealContext(e)))

\* SimulatedEnclave.attest, with the nonce that secrets.token_hex(16) returned
Attest(e, c, policy_version, nonce) ==
  Outcome(e, c, "ok",
          [mrenclave |-> e.mrenclave, signer |-> e.signer, nonce |-> nonce,
           policy_version |-> policy_version],
          "attest", << policy_version >>)

\* SimulatedEnclave.__init__ called on the existing object, signer defaulted
\* signer: str = "lab"
DefaultSigner == << 108, 97, 98 >>

Reinit(e, c, name) ==
  Outcome(NewEnclave(name, DefaultSigner), c, "ok", NoValue, "__init__", << name >>)

\* the attributes of a SimulatedEnclave that getattr finds and that are
\* callable: the methods the class defines
Methods ==
  {"__init__", "load", "_measure", "enter", "ecall", "ocall", "seal", "unseal", "attest"}

\* ecall called through ecall hands its arguments on: the method that
\* ecall(name, *args) reaches in the end, and the arguments it is given
RECURSIVE EcallTarget(_, _)
EcallTarget(name, args) ==
  IF name = "ecall" THEN EcallTarget(args[1], args[2]) ELSE << name, args >>

\* handler(*args) for a method other than ecall.  rnd holds what the random
\* sources return if asked.
Handler(e, c, name, args, rnd) ==
  CASE name = "__init__" -> Reinit(e, c, args[1])
    [] name = "load"     -> Load(e, c, args[1])
    [] name = "_measure" -> Outcome(e, c, "ok", Measure(e, args[1]), "_measure", args)
    [] name = "enter"    -> Enter(e, c, args[1])
    [] name = "ocall"    -> Ocall(e, c, args[1], args[2])
    [] name = "seal"     -> Seal(e, c, args[1], args[2], rnd.iv)
    [] name = "unseal"   -> Unseal(e, c, args[1])
    [] name = "attest"   -> Attest(e, c, args[1], rnd.nonce)

\* SimulatedEnclave.ecall: handler = getattr(self, name, None); a name that
\* is missing or names a data attribute raises, any method is called with
\* the arguments given.
Ecall(e, c, name, args, rnd) ==
  LET target == EcallTarget(name, args)
  IN  IF target[1] \notin Methods
        THEN Outcome(e, c, "UnknownOperation", NoValue, "none", << target[1] >>)
        ELSE Handler(e, c, target[1], target[2], rnd)

(***************************************************************************)
(* EnclaveRegistry.  heap holds the SimulatedEnclave objects by object id,  *)
(* instances maps a name to the object id of its enclave.                  *)
(***************************************************************************)
\* the segments get_or_create loads: [b"init"]
DefaultSegments == << << 105, 110, 105, 116 >> >>

\* the registry after an instance was stored under name
Registered(h, instances, name, oid, e) ==
  [heap      |-> [o \in DOMAIN h \cup {oid} |-> IF o = oid THEN e ELSE h[o]],
   instances |-> [n \in DOMAIN instances \cup {name} |->
                   IF n = name THEN oid ELSE instances[n]],
   value     |-> oid]

\* lines 154-156 of get_or_create: SimulatedEnclave(name), load, store
CreateInstance(h, instances, c, name) ==
  Registered(h, instances, name, Cardinality(DOMAIN h) + 1,
             Load(NewEnclave(name, DefaultSigner), c, DefaultSegments).encl)

\* get_or_create without the test of line 153
GetOrCreateAlways(h, instances, c, name) == CreateInstance(h, instances, c, name)

\* EnclaveRegistry.get_or_create
GetOrCreate(h, instances, c, name) ==
  IF name \notin DOMAIN instances THEN CreateInstance(h, instances, c, name)
  ELSE [heap |-> h, instances |-> instances, value |-> instances[name]]

(***************************************************************************)
(* MemoryPage.write on a page of the enclave; ValueError "Page overflow    *)
(* detected" is Overflow.                                                  *)
(***************************************************************************)
\* MemoryPage.write without the test of line 32
PageWriteUnchecked(page, content) ==
  [page |-> [page EXCEPT !.data = content], status |-> "ok"]

\* MemoryPage.write
PageWrite(page, content) ==
  IF Len(content) > page.size THEN [page |-> page, status |-> "Overflow"]
  ELSE [page |-> [page EXCEPT !.data = content], status |-> "ok"]

\* enclave.pages[i].write(content), w being what the write made of the page
PageWritten(e, c, i, content, w) ==
  Outcome([e EXCEPT !.pages[i] = w.page], c, w.status, NoValue,
          "page.write", << i, content >>)

PageWriteAt(e, c, i, content) ==
  PageWritten(e, c, i, content, PageWrite(e.pages[i], content))

(***************************************************************************)
(* EncryptedMemory.  The dict of pages is the sequence of its values in    *)
(* insertion order; KeyError "Page missing" is PageNotFound, ValueError    *)
(* "Integrity check failed for page" is IntegrityError.                    *)
(***************************************************************************)
\* the decimal digits of n >= 0
RECURSIVE Digits(_)
Digits(n) ==
  IF n < 10 THEN << 48 + n >> ELSE Digits(n \div 10) \o << 48 + (n % 10) >>

\* str(n) of an int
StrOfInt(n) == IF n < 0 THEN << 45 >> \o Digits(0 - n) ELSE Digits(n)

\* _derive_page_key: identity f"vm:{vm_id}", context str(page_id)
DerivePageKey(c, vm_id, page_id) ==
  DeriveKey(c, << 118, 109, 58 >> \o vm_id, StrOfInt(page_id))

\* EncryptedMemory._mac
PageMac(token) == HexOf(Sha256(Utf8Encode(token)))

\* EncryptedMemory._verify
Verify(token, mac) == PageMac(token) = mac

\* page_id in pages, pages[page_id], pages[page.page_id] = page of a dict
HasPage(pages, page_id) == \E i \in 1..Len(pages) : pages[i].page_id = page_id

GetPage(pages, page_id) ==
  pages[CHOOSE i \in 1..Len(pages) : pages[i].page_id = page_id]

\* a dict that keeps the first value stored under a key
PutPageIfAbsent(pages, page) ==
  IF HasPage(pages, page.page_id) THEN pages ELSE Append(pages, page)

PutPage(pages, page) ==
  IF HasPage(pages, page.page_id)
    THEN [i \in 1..Len(pages) |->
            IF pages[i].page_id = page.page_id THEN page ELSE pages[i]]
    ELSE Append(pages, page)

\* EncryptedMemory(vm_id=vm_id)
NewMemory(vm_id) == [vm_id |-> vm_id, pages |-> << >>]

\* what a method of the memory leaves: the memory, the KMS cache, the result
MemOutcome(mem, c, status, value) ==
  [mem |-> mem, cache |-> c, status |-> status, value |-> value]

\* lines 40-42 of write
MemStored(mem, c, page) ==
  MemOutcome([mem EXCEPT !.pages = PutPage(@, page)], c, "ok", page)

\* line 39 of write
MemStore(mem, c, page_id, token) ==
  MemStored(mem, c, [page_id |-> page_id, ciphertext |-> token,
                     mac |-> PageMac(token) \o << >>])

\* line 38 of write, d being what _derive_page_key gave
MemWriteWithKey(mem, page_id, data, iv, d) ==
  MemStore(mem, d.cache, page_id, Encrypt(d.key, data, iv) \o << >>)

\* EncryptedMemory.write, with the iv that os.urandom(16) returns
MemWrite(mem, c, page_id, data, iv) ==
  MemWriteWithKey(mem, page_id, data, iv, DerivePageKey(c, mem.vm_id, page_id))

\* lines 51-54 of read, r being what decrypt gave
MemReadDecrypted(mem, c, page, r) ==
  IF r.status # "ok" THEN MemOutcome(mem, c, r.status, NoValue)
  ELSE IF ~Verify(page.ciphertext, page.mac)
    THEN MemOutcome(mem, c, "IntegrityError", NoValue)
  ELSE MemOutcome(mem, c, "ok", r.value)

\* line 50 of read
MemReadWithKey(mem, page, d) ==
  MemReadDecrypted(mem, d.cache, page, Decrypt(d.key, page.ciphertext))

\* EncryptedMemory.read
MemRead(mem, c, page_id) ==
  IF ~HasPage(mem.pages, page_id) THEN MemOutcome(mem, c, "PageNotFound", NoValue)
  ELSE MemReadWithKey(mem, GetPage(mem.pages, page_id),
                      DerivePageKey(c, mem.vm_id, page_id))

(***************************************************************************)
(* SimulatedVM.                                                            *)
(***************************************************************************)
\* measurement: str | None = None
None == << -1 >>

\* SimulatedVM(vm_id=vm_id, owner=owner, memory=EncryptedMemory(vm_id=vm_id))
NewVm(vm_id, owner) ==
  [vm_id |-> vm_id, owner |-> owner, memory |-> NewMemory(vm_id),
   vcpus |-> << >>, measurement |-> None]

\* what a method of the VM leaves: the VM, the KMS cache, the result
VmOutcome(vm, c, status, value) ==
  [vm |-> vm, cache |-> c, status |-> status, value |-> value]

\* lines 37-39 of launch_vcpu
VcpuAppended(vm, c, vcpu) ==
  VmOutcome([vm EXCEPT !.vcpus = Append(@, vcpu)], c, "ok", vcpu)

\* launch_vcpu that numbers the vCPUs from 1
LaunchVcpuFromOne(vm, c) ==
  VcpuAppended(vm, c, [id |-> Len(vm.vcpus) + 1, registers |-> [rip |-> 0, rsp |-> 0]])

\* SimulatedVM.launch_vcpu
LaunchVcpu(vm, c) ==
  VcpuAppended(vm, c, [id |-> Len(vm.vcpus), registers |-> [rip |-> 0, rsp |-> 0]])

\* the pages in the order of the dict
InsertionOrder(pages, acc) == pages

\* sorted(self.memory.pages.items()): the pages in ascending page_id
RECURSIVE SortedPages(_, _)
SortedPages(pages, acc) ==
  IF Len(acc) >= 0 /\ pages = << >> THEN acc
  ELSE LET i == CHOOSE j \in 1..Len(pages) :
                  \A k \in 1..Len(pages) : pages[j].page_id <= pages[k].page_id
       IN  SortedPages(SubSeq(pages, 1, i - 1) \o SubSeq(pages, i + 1, Len(pages)),
                       Append(acc, pages[i]))

\* lines 46-49 of measure: what the loop feeds the hasher
RECURSIVE PagesInput(_, _)
PagesInput(pages, i) ==
  IF i > Len(pages) THEN << >>
  ELSE ((Utf8Encode(pages[i].ciphertext) \o Utf8Encode(pages[i].mac))
          \o Utf8Encode(StrOfInt(pages[i].page_id)))
         \o PagesInput(pages, i + 1)

\* the measurement as measure computes it, whatever the order of the dict
MeasurementOf(vm) ==
  HexOf(Sha256((Utf8Encode(vm.vm_id) \o Utf8Encode(vm.owner))
               \o PagesInput(SortedPages(vm.memory.pages, << >>), 1))) \o << >>

\* lines 50-52 of measure
Measured(vm, c, m) == VmOutcome([vm EXCEPT !.measurement = m], c, "ok", m)

\* SimulatedVM.measure
VmMeasure(vm, c) == Measured(vm, c, MeasurementOf(vm))

\* lines 59-61 of attest
Report(vm, c, nonce) ==
  VmOutcome(vm, c, "ok",
            [vm_id |-> vm.vm_id, nonce |-> nonce, measurement |-> vm.measurement])

\* SimulatedVM.attest, with the nonce that secrets.token_hex(16) returns
VmAttest(vm, c, nonce) ==
  IF vm.measurement = None THEN Report(VmMeasure(vm, c).vm, c, nonce)
  ELSE Report(vm, c, nonce)

\* vm.memory.write(page_id, data)
VmWritten(vm, r) ==
  VmOutcome([vm EXCEPT !.memory = r.mem], r.cache, r.status, r.value)

VmWrite(vm, c, page_id, data, iv) ==
  VmWritten(vm, MemWrite(vm.memory, c, page_id, data, iv))

\* vm.memory.read(page_id)
VmRead(vm, c, page_id) == VmWritten(vm, MemRead(vm.memory, c, page_id))

(***************************************************************************)
(* SevLaunchManager.  vms maps a vm_id to its SimulatedVM; KeyError "VM    *)
(* not found" is VmNotFound.                                               *)
(***************************************************************************)
\* what a method of the manager leaves: vms, the KMS cache, the result
MgrOutcome(vms, c, status, value) ==
  [vms |-> vms, cache |-> c, status |-> status, value |-> value]

\* the manager after a method of the VM vm_id gave r, value being the result
MgrAfter(vms, vm_id, r, value) ==
  MgrOutcome([vms EXCEPT ![vm_id] = r.vm], r.cache, r.status, value)

\* a create_vm that keeps no VM but the new one
CreateVmAlone(vms, c, owner, vm_id) ==
  MgrOutcome([v \in {vm_id} |-> NewVm(vm_id, owner)], c, "ok", vm_id)

\* SevLaunchManager.create_vm, with the vm_id that os.urandom(6).hex() gives
CreateVm(vms, c, owner, vm_id) ==
  MgrOutcome([v \in DOMAIN vms \cup {vm_id} |->
                IF v = vm_id THEN NewVm(vm_id, owner) ELSE vms[v]],
             c, "ok", vm_id)

\* _require_vm fails
VmNotFound(vms, c) == MgrOutcome(vms, c, "VmNotFound", NoValue)

\* lines 34-35 of encrypt_page, w being what vm.memory.write gave
EncryptPageMeasured(vms, vm_id, page_id, w, m) ==
  MgrAfter(vms, vm_id, m,
           [vm_id |-> vm_id, page_id |-> page_id, measurement |-> m.value,
            mac |-> w.value.mac])

\* encrypt_page that returns the cached measurement and does not measure
EncryptPageUnmeasured(vms, vm_id, page_id, w) ==
  EncryptPageMeasured(vms, vm_id, page_id, w,
                      VmOutcome(w.vm, w.cache, "ok", w.vm.measurement))

\* lines 33-35 of encrypt_page, w being what vm.memory.write gave
EncryptPageWritten(vms, vm_id, page_id, w) ==
  EncryptPageMeasured(vms, vm_id, page_id, w, VmMeasure(w.vm, w.cache))

\* SevLaunchManager.encrypt_page
EncryptPage(vms, c, vm_id, page_id, data, iv) ==
  IF vm_id \notin DOMAIN vms THEN VmNotFound(vms, c)
  ELSE EncryptPageWritten(vms, vm_id, page_id,
                          VmWrite(vms[vm_id], c, page_id, data, iv))

\* lines 40-41 of launch_vcpu
VcpuLaunched(vms, vm_id, r) ==
  MgrAfter(vms, vm_id, r, [vm_id |-> vm_id, vcpu_id |-> r.value.id])

\* launch_vcpu that creates the VM it does not find
MgrLaunchVcpuOrCreate(vms, c, vm_id) ==
  VcpuLaunched([v \in DOMAIN vms \cup {vm_id} |->
                  IF v \in DOMAIN vms THEN vms[v] ELSE NewVm(vm_id, << >>)],
               vm_id,
               LaunchVcpu(IF vm_id \in DOMAIN vms THEN vms[vm_id]
                          ELSE NewVm(vm_id, << >>), c))

\* SevLaunchManager.launch_vcpu
MgrLaunchVcpu(vms, c, vm_id) ==
  IF vm_id \notin DOMAIN vms THEN VmNotFound(vms, c)
  ELSE VcpuLaunched(vms, vm_id, LaunchVcpu(vms[vm_id], c))

\* line 46 of attest: the manager returns what the VM returned
Attested(vms, vm_id, r) == MgrAfter(vms, vm_id, r, r.value)

\* SevLaunchManager.attest
MgrAttest(vms, c, vm_id, nonce) ==
  IF vm_id \notin DOMAIN vms THEN VmNotFound(vms, c)
  ELSE Attested(vms, vm_id, VmAttest(vms[vm_id], c, nonce))

\* line 63 of the route launch_vm, m being what vm.measure() gave
VmLaunched(vms, vm_id, vcpu, m) ==
  MgrAfter(vms, vm_id, m,
           [vm_id |-> vm_id, vcpu_id |-> vcpu.id, measurement |-> m.value])

\* lines 60-61 of launch_vm, l being what vm.launch_vcpu() gave
VmLaunching(vms, vm_id, l) ==
  VmLaunched(vms, vm_id, l.value, VmMeasure(l.vm, l.cache))

\* line 59 of launch_vm, created being what create_vm gave
VmCreated(created, vm_id) ==
  VmLaunching(created.vms, vm_id, LaunchVcpu(created.vms[vm_id], created.cache))

\* the route launch_vm
LaunchVm(vms, c, owner, vm_id) == VmCreated(CreateVm(vms, c, owner, vm_id), vm_id)

(***************************************************************************)
(* Inputs.                                                                 *)
(***************************************************************************)
\* the values os.urandom(16) may return
IvOf(s) == [i \in 1..IvLen |-> ((s * 83) + (i * 7)) % 256]
Ivs == {IvOf(1), IvOf(2)}

\* a plaintext of n bytes
PlainOf(n, s) == [i \in 1..n |-> ((s * 101) + (i * 13)) % 256]
Plaintexts == {PlainOf(n, s) : n \in 0..MaxPlainLen, s \in {1}}
ShortPlaintexts == {PlainOf(n, 2) : n \in 0..MaxTamperLen}

\* identities and contexts as str: "a", "a:b" and "c", "b:c"
Identities == {<< 97 >>, << 97, 58, 98 >>}
Contexts == {<< 99 >>, << 98, 58, 99 >>}

\* keys handed to encrypt and decrypt: derived keys and a one-byte key
Keys == {DeriveFresh(<< 97 >>, << 99 >>), DeriveFresh(<< 98 >>, << 99 >>), << 7 >>}

\* the enclave "e"
EnclaveName == << 101 >>

\* segment lists that load accepts, [b"init"] and [b"evil"], and lists it
\* rejects, [] and [b"init", b""]
SegInit == << 105, 110, 105, 116 >>
SegEvil == << 101, 118, 105, 108 >>
SegmentLists == {<< SegInit >>, << SegEvil >>}
BadSegmentLists == {<< >>, << SegInit, << >> >>}

\* identities of seal and unseal: "a" and "b"
SealIdentities == {<< 97 >>, << 98 >>}

\* data of seal: {"s": "v"} and {"s": "\"\\e-acute\n", "t": ""}
DataPlain == << << << 115 >>, << 118 >> >> >>
DataEscaped == << << << 115 >>, << 34, 92, 233, 10 >> >>, << << 116 >>, << >> >> >>
SealData == {DataPlain, DataEscaped}

\* vm ids as os.urandom(6).hex() gives them, and an id the manager never gave
VmA == HexOf(<< 10, 11, 12, 13, 14, 15 >>) \o << >>
VmB == HexOf(<< 0, 1, 2, 3, 4, 255 >>) \o << >>
UnknownVm == << 117, 110, 107, 110, 111, 119, 110 >>

\* owner "o"
OwnerO == << 111 >>

\* page content b"demo"
Demo == << 100, 101, 109, 111 >>

\* segment lists of one and of two segments, the two in either order, and
\* lists with no segment or with an empty segment in first or last place
LoadLists == {<< SegInit >>, << SegInit, SegEvil >>, << SegEvil, SegInit >>}
BadLoadLists == BadSegmentLists \cup {<< << >>, SegInit >>}

\* contents written to a page of four bytes: b"", b"x" and b"demo!"
PageContents == {<< >>, << 120 >>, Demo \o << 33 >>}

\* characters written over one character of a token: A + / - _ = ! and e-acute
TamperChars == {65, 43, 47, 45, 95, 61, 33, 233}

\* the alphabet character whose index differs in the lowest bit
Neighbour(c) ==
  LET x == B64Index(UrlsafeDecodeChar(c))
  IN  IF x >= 64 THEN 66
      ELSE UrlsafeEncodeChar(B64Char(IF x % 2 = 0 THEN x + 1 ELSE x - 1))

(***************************************************************************)
(* State.                                                                  *)
(***************************************************************************)
VARIABLES
  cache,      \* kms_singleton._cache: cache key -> derived key
  derived,    \* history: <<identity, context>> -> the key derive_key returned
              \* first, and whether it was called again
  token,      \* the token a caller holds, as encrypt returned it or as altered since
  tkey,       \* history: the key the token was made under
  tplain,     \* history: the plaintext the token was made from
  tampered,   \* history: "no", or how the token was altered: "changed", "cut"
  ret,        \* the call that was made last and what it returned
  encl,       \* the SimulatedEnclave
  vms,        \* launch_manager.vms: vm_id -> SimulatedVM
  vmhist,     \* history of the VMs: for each page of each VM what was written
              \* last and before (written), and for each vm_id what the
              \* last measure call found and returned (measures)
  heap,       \* the SimulatedEnclave objects of the registry, by object id
  registry,   \* enclave_registry._instances: name -> object id
  threads,    \* the callers that run concurrently: for each its position in
              \* the code (pc), the call it is in (op, arg), its local
              \* variables (local) and what the call returned (result)
  hist        \* history of the enclave: what was sealed for each identity, under
              \* which measurement, whether a load succeeded since (reloaded),
              \* whether the measurement differed since (moved) and whether the
              \* identity had sealed data before (again); whether a load ever
              \* succeeded (loads) and the measurement the last one computed;
              \* the identities a seal ever succeeded for on this instance (ever)

kmsVars == << cache, derived >>
tokenVars == << token, tkey, tplain, tampered >>
enclVars == << encl, hist >>
regVars == << heap, registry >>
sevVars == << vms, vmhist >>
thrVars == << threads >>
vars == << cache, derived, token, tkey, tplain, tampered, ret, encl, hist,
           heap, registry, vms, vmhist, threads >>

\* the callers, and a caller that is in no call
Threads == 1..NumThreads
Idle ==
  [pc |-> "idle", op |-> "none", arg |-> << >>, local |-> << >>, result |-> << >>]

\* op is the method the caller called, did the method that ran in the end
NoCall ==
  [op |-> "none", arg |-> NoValue, status |-> "none", value |-> NoValue, did |-> "none"]
Call(op, arg, status, value) ==
  [op |-> op, arg |-> arg, status |-> status, value |-> value, did |-> op]
Returned(op, arg, r) == Call(op, arg, r.status, r.value)

Init ==
  /\ cache = << >>
  /\ derived = << >>
  /\ token = << >>
  /\ tkey = NoValue
  /\ tplain = NoValue
  /\ tampered = "no"
  /\ ret = NoCall
  /\ encl = NewEnclave(EnclaveName, DefaultSigner)
  /\ hist = [sealed |-> << >>, ever |-> {}, loads |-> FALSE, measured |-> << >>]
  /\ heap = << >>
  /\ registry = << >>
  /\ vms = << >>
  /\ vmhist = [written |-> << >>, measures |-> << >>]
  /\ threads = [t \in Threads |-> Idle]

(***************************************************************************)
(* Calls on the key service.                                               *)
(***************************************************************************)
\* kms.derive_key(identity, context)
KmsDerived(p, r) ==
  /\ cache' = r.cache
  /\ derived' = [q \in DOMAIN derived \cup {p} |->
                   IF q # p THEN derived[q]
                   ELSE IF p \in DOMAIN derived
                          THEN [derived[p] EXCEPT !.again = TRUE]
                          ELSE [key |-> r.key, again |-> FALSE]]
  /\ ret' = Call("derive_key", p, "ok", r.key)
  /\ UNCHANGED << tokenVars, enclVars, regVars, sevVars, thrVars >>

KmsDeriveKey(identity, context) ==
  KmsDerived(<< identity, context >>, DeriveKey(cache, identity, context))

\* token = kms.encrypt(key, plaintext), os.urandom returning iv
KmsEncrypt(key, plaintext, iv) ==
  /\ token' = Encrypt(key, plaintext, iv)
  /\ tkey' = key
  /\ tplain' = plaintext
  /\ tampered' = "no"
  /\ ret' = Call("encrypt", << key, plaintext >>, "ok", token')
  /\ UNCHANGED << kmsVars, enclVars, regVars, sevVars, thrVars >>

\* kms.decrypt(key, token) on the token held
KmsDecrypt(key) ==
  /\ tkey # NoValue
  /\ ret' = Returned("decrypt", key, Decrypt(key, token))
  /\ UNCHANGED << kmsVars, tokenVars, enclVars, regVars, sevVars, thrVars >>

\* one character of the token is replaced by another
Tamper(i, c) ==
  /\ tkey # NoValue
  /\ tampered = "no"
  /\ token[i] # c
  /\ token' = [token EXCEPT ![i] = c]
  /\ tampered' = "changed"
  /\ ret' = Call("tamper", << i, c >>, "ok", NoValue)
  /\ UNCHANGED << kmsVars, tkey, tplain, enclVars, regVars, sevVars, thrVars >>

\* the token is cut to its first n characters
Truncate(n) ==
  /\ tkey # NoValue
  /\ tampered = "no"
  /\ token' = Take(token, n)
  /\ tampered' = "cut"
  /\ ret' = Call("truncate", n, "ok", NoValue)
  /\ UNCHANGED << kmsVars, tkey, tplain, enclVars, regVars, sevVars, thrVars >>

(***************************************************************************)
(* Calls on the enclave.                                                   *)
(***************************************************************************)
\* the history after a call with outcome r
HistAfter(h, r) ==
  LET loadedNow == r.did = "load" /\ r.status = "ok"
      sealedNow == r.did = "seal" /\ r.status = "ok"
      before == IF r.did = "__init__" THEN << >> ELSE h.sealed
      after  == [id \in DOMAIN before |->
                   [before[id] EXCEPT
                      !.reloaded = @ \/ loadedNow,
                      !.moved = @ \/ r.encl.mrenclave # before[id].mr]]
  IN  [sealed   |-> IF ~sealedNow THEN after
                    ELSE [id \in DOMAIN after \cup {r.arg[1]} |->
                            IF id # r.arg[1] THEN after[id]
                            ELSE [data |-> r.arg[2], mr |-> r.encl.mrenclave,
                                  reloaded |-> FALSE, moved |-> FALSE,
                                  again |-> id \in DOMAIN after]],
       ever     |-> IF sealedNow THEN h.ever \cup {r.arg[1]} ELSE h.ever,
       loads    |-> h.loads \/ loadedNow,
       measured |-> IF loadedNow THEN r.value ELSE h.measured]

\* a call op(arg) on the enclave with outcome r
EnclaveCall(op, arg, r) ==
  /\ encl' = r.encl
  /\ cache' = r.cache
  /\ hist' = HistAfter(hist, r)
  /\ ret' = [op |-> op, arg |-> arg, status |-> r.status, value |-> r.value,
             did |-> r.did]
  /\ UNCHANGED << derived, tokenVars, regVars, sevVars, thrVars >>

EnclaveLoad(segments) == EnclaveCall("load", << segments >>, Load(encl, cache, segments))

EnclaveSeal(identity, data, iv) ==
  EnclaveCall("seal", << identity, data >>, Seal(encl, cache, identity, data, iv))

EnclaveUnseal(identity) ==
  EnclaveCall("unseal", << identity >>, Unseal(encl, cache, identity))

EnclaveAttest(policy_version, nonce) ==
  EnclaveCall("attest", << policy_version >>, Attest(encl, cache, policy_version, nonce))

EnclaveOcall(name, payload) ==
  EnclaveCall("ocall", << name, payload >>, Ocall(encl, cache, name, payload))

EnclaveEnter(handler) ==
  EnclaveCall("enter", << handler >>, Enter(encl, cache, handler))

EnclaveEcall(name, args, rnd) ==
  EnclaveCall("ecall", << name, args >>, Ecall(encl, cache, name, args, rnd))

\* enclave.pages[i - 1].write(content)
EnclavePageWrite(i, content) ==
  EnclaveCall("page.write", << i, content >>, PageWriteAt(encl, cache, i, content))

(***************************************************************************)
(* Calls on the enclave registry, and on the instances it hands out.       *)
(***************************************************************************)
\* the registry after get_or_create gave r
RegistryAfter(r) ==
  /\ heap' = r.heap
  /\ registry' = r.instances

\* enclave_registry.get_or_create(name)
RegistryGetOrCreate(name) ==
  /\ RegistryAfter(GetOrCreate(heap, registry, cache, name))
  /\ ret' = Call("get_or_create", << name >>, "ok", registry'[name])
  /\ UNCHANGED << kmsVars, tokenVars, enclVars, sevVars, thrVars >>

\* a method of the instance oid gave r
InstanceAfter(op, arg, oid, r) ==
  /\ heap' = [heap EXCEPT ![oid] = r.encl]
  /\ cache' = r.cache
  /\ ret' = Call(op, arg, r.status, r.value)
  /\ UNCHANGED << registry, derived, tokenVars, enclVars, sevVars, thrVars >>

\* enclave.seal(identity, data) on an instance the registry handed out
InstanceSeal(oid, identity, data, iv) ==
  InstanceAfter("seal", << oid, identity, data >>, oid,
                Seal(heap[oid], cache, identity, data, iv))

\* enclave.load(segments) on an instance the registry handed out
InstanceLoad(oid, segments) ==
  InstanceAfter("load", << oid, segments >>, oid, Load(heap[oid], cache, segments))

(***************************************************************************)
(* SpecRegistry: get_or_create for two names, and seal and load on the     *)
(* instances.                                                              *)
(***************************************************************************)
RegistryNames == {<< 101 >>, << 102 >>}

NextRegistry ==
  \/ \E name \in RegistryNames : RegistryGetOrCreate(name)
  \/ \E oid \in DOMAIN heap, d \in SealData : InstanceSeal(oid, << 97 >>, d, IvOf(1))
  \/ \E oid \in DOMAIN heap : InstanceLoad(oid, << SegEvil >>)

SpecRegistry == Init /\ [][NextRegistry]_vars

(***************************************************************************)
(* Calls on the launch manager, and on the VMs it holds.                   *)
(***************************************************************************)
\* the (page_id, token) pairs of the pages of a dict, and its page ids in the
\* order of the dict
Pairs(pages) == {<< pages[i].page_id, pages[i].ciphertext >> : i \in 1..Len(pages)}

Order(pages) == [i \in 1..Len(pages) |-> pages[i].page_id]

\* the history without the pages of the VM object that vm_id named before
ForgetVm(h, vm_id) ==
  [h EXCEPT !.written = [k \in {q \in DOMAIN h.written : q[1] # vm_id} |->
                           h.written[k]]]

\* the history after data was written to a page under iv and stored as token
RecordWrite(h, k, data, iv, tok) ==
  [h EXCEPT !.written =
     [q \in DOMAIN h.written \cup {k} |->
        IF q # k THEN h.written[q]
        ELSE [data |-> data, iv |-> iv, token |-> tok, altered |-> FALSE,
              again |-> k \in DOMAIN h.written,
              pdata |-> IF k \in DOMAIN h.written THEN h.written[k].data ELSE NoValue,
              piv |-> IF k \in DOMAIN h.written THEN h.written[k].iv ELSE NoValue,
              ptoken |-> IF k \in DOMAIN h.written THEN h.written[k].token
                         ELSE NoValue]]]

\* the history after measure ran on vm and returned digest: the pages it
\* found, and, when a VM of that vm_id and owner was measured before (had),
\* whether that measure found the same pairs, returned the same digest, and
\* found the same pairs in another order
MeasureRecord(had, before, vm, digest) ==
  [owner |-> vm.owner, pages |-> vm.memory.pages, digest |-> digest, had |-> had,
   same_pairs  |-> had /\ Pairs(before.pages) = Pairs(vm.memory.pages),
   same_digest |-> had /\ before.digest = digest,
   reordered   |-> /\ had
                   /\ Pairs(before.pages) = Pairs(vm.memory.pages)
                   /\ Order(before.pages) # Order(vm.memory.pages)]

RecordMeasure(h, vm, digest) ==
  [h EXCEPT !.measures =
     [k \in DOMAIN h.measures \cup {vm.vm_id} |->
        IF k # vm.vm_id THEN h.measures[k]
        ELSE IF k \in DOMAIN h.measures /\ h.measures[k].owner = vm.owner
          THEN MeasureRecord(TRUE, h.measures[k], vm, digest)
          ELSE MeasureRecord(FALSE, [pages |-> << >>, digest |-> None], vm, digest)]]

\* the history after a stored page was altered
RecordAltered(h, k) == [h EXCEPT !.written[k].altered = TRUE]

\* a call op(arg) with outcome r and history h after it
VmStep(op, arg, r, h) ==
  /\ vms' = r.vms
  /\ cache' = r.cache
  /\ vmhist' = h
  /\ ret' = Call(op, arg, r.status, r.value)
  /\ UNCHANGED << derived, tokenVars, enclVars, regVars, thrVars >>

\* the history after vm_id was written (a write), measured, both or neither
WriteHist(r, vm_id, page_id, data, iv) ==
  RecordWrite(vmhist, << vm_id, page_id >>, data, iv,
              GetPage(r.vms[vm_id].memory.pages, page_id).ciphertext)

WriteMeasureHist(r, vm_id, page_id, data, iv) ==
  IF r.status # "ok" THEN vmhist
  ELSE RecordMeasure(WriteHist(r, vm_id, page_id, data, iv), r.vms[vm_id],
                     r.vms[vm_id].measurement)

MeasureHist(r, vm_id, ran) ==
  IF r.status = "ok" /\ ran
    THEN RecordMeasure(vmhist, vms[vm_id], r.vms[vm_id].measurement)
    ELSE vmhist

\* launch_manager.create_vm(owner), os.urandom(6).hex() giving vm_id
MgrCreateVmCall(owner, vm_id) ==
  VmStep("create_vm", << owner >>, CreateVm(vms, cache, owner, vm_id),
         ForgetVm(vmhist, vm_id))

\* the route launch_vm
LaunchVmStep(owner, vm_id, r) ==
  VmStep("launch_vm", << owner >>, r,
         RecordMeasure(ForgetVm(vmhist, vm_id), r.vms[vm_id],
                       r.vms[vm_id].measurement))

LaunchVmCall(owner, vm_id) ==
  LaunchVmStep(owner, vm_id, LaunchVm(vms, cache, owner, vm_id))

\* launch_manager.encrypt_page(vm_id, page_id, data)
EncryptPageStep(vm_id, page_id, data, iv, r) ==
  VmStep("encrypt_page", << vm_id, page_id, data >>, r,
         WriteMeasureHist(r, vm_id, page_id, data, iv))

MgrEncryptPageCall(vm_id, page_id, data, iv) ==
  EncryptPageStep(vm_id, page_id, data, iv,
                  EncryptPage(vms, cache, vm_id, page_id, data, iv))

\* launch_manager.launch_vcpu(vm_id)
MgrLaunchVcpuCall(vm_id) ==
  VmStep("launch_vcpu", << vm_id >>, MgrLaunchVcpu(vms, cache, vm_id), vmhist)

\* launch_manager.attest(vm_id)
AttestStep(op, vm_id, r, ran) ==
  VmStep(op, << vm_id >>, r, MeasureHist(r, vm_id, ran))

MgrAttestCall(vm_id, nonce) ==
  AttestStep("attest", vm_id, MgrAttest(vms, cache, vm_id, nonce),
             vm_id \in DOMAIN vms /\ vms[vm_id].measurement = None)

\* vm.attest() on a VM of the manager
VmAttestCall(vm_id, nonce) ==
  AttestStep("vm.attest", vm_id,
             Attested(vms, vm_id, VmAttest(vms[vm_id], cache, nonce)),
             vms[vm_id].measurement = None)

\* vm.measure() on a VM of the manager
VmMeasureCall(vm_id) ==
  AttestStep("vm.measure", vm_id,
             Attested(vms, vm_id, VmMeasure(vms[vm_id], cache)), TRUE)

\* vm.launch_vcpu() on a VM of the manager
VmLaunchVcpuCall(vm_id) ==
  VmStep("vm.launch_vcpu", << vm_id >>,
         Attested(vms, vm_id, LaunchVcpu(vms[vm_id], cache)), vmhist)

\* vm.memory.write(page_id, data) on a VM of the manager
MemWriteStep(vm_id, page_id, data, iv, r) ==
  VmStep("memory.write", << vm_id, page_id, data >>, r,
         WriteHist(r, vm_id, page_id, data, iv))

MemWriteCall(vm_id, page_id, data, iv) ==
  MemWriteStep(vm_id, page_id, data, iv,
               Attested(vms, vm_id, VmWrite(vms[vm_id], cache, page_id, data, iv)))

\* vm.memory.read(page_id) on a VM of the manager
MemReadCall(vm_id, page_id) ==
  VmStep("memory.read", << vm_id, page_id >>,
         Attested(vms, vm_id, VmRead(vms[vm_id], cache, page_id)), vmhist)

\* the holder of a stored EncryptedPage assigns its ciphertext or its mac
AlterPage(vm_id, page_id, field, value) ==
  /\ HasPage(vms[vm_id].memory.pages, page_id)
  /\ GetPage(vms[vm_id].memory.pages, page_id)[field] # value
  /\ vms' = [vms EXCEPT ![vm_id].memory.pages =
               PutPage(@, [GetPage(@, page_id) EXCEPT ![field] = value])]
  /\ vmhist' = RecordAltered(vmhist, << vm_id, page_id >>)
  /\ ret' = Call("alter", << vm_id, page_id, field >>, "ok", NoValue)
  /\ UNCHANGED << kmsVars, tokenVars, enclVars, regVars, thrVars >>

(***************************************************************************)
(* SpecStore: writes and reads on the encrypted memory of one VM, and      *)
(* stored pages altered by their holder.                                   *)
(***************************************************************************)
\* what the holder writes over the token of a page: its first 5 characters,
\* the token with another first character, the token the page held before
AlteredTokens(vm_id, page_id) ==
  {Take(GetPage(vms[vm_id].memory.pages, page_id).ciphertext, 5),
   [GetPage(vms[vm_id].memory.pages, page_id).ciphertext EXCEPT
      ![1] = IF @ = 65 THEN 66 ELSE 65]}
    \cup {vmhist.written[k].ptoken :
            k \in {q \in {<< vm_id, page_id >>} \cap DOMAIN vmhist.written :
                     vmhist.written[q].again}}

\* what is written to page 2, and the iv os.urandom(16) gives for it
StoreWrites == {<< Demo, IvOf(1) >>, << Demo, IvOf(2) >>, << << 120 >>, IvOf(1) >>}

NextStore ==
  \/ vms = << >> /\ MgrCreateVmCall(OwnerO, VmA)
  \/ \E vm_id \in DOMAIN vms, w \in StoreWrites : MemWriteCall(vm_id, 2, w[1], w[2])
  \/ \E vm_id \in DOMAIN vms : MemWriteCall(vm_id, 10, Demo, IvOf(1))
  \/ \E vm_id \in DOMAIN vms, page_id \in {2, 10} : MemReadCall(vm_id, page_id)
  \/ \E vm_id \in DOMAIN vms :
       /\ HasPage(vms[vm_id].memory.pages, 2)
       /\ \E value \in AlteredTokens(vm_id, 2) : AlterPage(vm_id, 2, "ciphertext", value)
  \/ \E vm_id \in DOMAIN vms : AlterPage(vm_id, 2, "mac", PageMac(<< 65 >>) \o << >>)

SpecStore == Init /\ [][NextStore]_vars

(***************************************************************************)
(* SpecMeasure: writes and measure calls on a VM, and create_vm giving the  *)
(* same vm_id again, which puts a new VM in the place of the old one.      *)
(***************************************************************************)
NextMeasure ==
  \/ MgrCreateVmCall(OwnerO, VmA)
  \/ \E vm_id \in DOMAIN vms, iv \in Ivs : MemWriteCall(vm_id, 2, Demo, iv)
  \/ \E vm_id \in DOMAIN vms : MemWriteCall(vm_id, 10, Demo, IvOf(1))
  \/ \E vm_id \in DOMAIN vms : VmMeasureCall(vm_id)

SpecMeasure == Init /\ [][NextMeasure]_vars

(***************************************************************************)
(* SpecManager: the launch manager with one VM, called with its vm_id and  *)
(* with an unknown one, and the methods of the VM called directly.         *)
(***************************************************************************)
\* the vm_ids the manager is called with
CalledVmIds == DOMAIN vms \cup {UnknownVm}

NextManager ==
  \/ vms = << >> /\ MgrCreateVmCall(OwnerO, VmA)
  \/ vms = << >> /\ LaunchVmCall(OwnerO, VmA)
  \/ \E vm_id \in CalledVmIds, iv \in Ivs : MgrEncryptPageCall(vm_id, 2, Demo, iv)
  \/ \E vm_id \in CalledVmIds :
       /\ vm_id \in DOMAIN vms => Len(vms[vm_id].vcpus) < MaxVcpus
       /\ MgrLaunchVcpuCall(vm_id)
  \/ \E vm_id \in CalledVmIds : MgrAttestCall(vm_id, "nonce")
  \/ \E vm_id \in DOMAIN vms : MemWriteCall(vm_id, 2, Demo, IvOf(1))
  \/ \E vm_id \in DOMAIN vms : VmMeasureCall(vm_id)
  \/ \E vm_id \in DOMAIN vms : VmAttestCall(vm_id, "nonce")
  \/ \E vm_id \in DOMAIN vms :
       Len(vms[vm_id].vcpus) < MaxVcpus /\ VmLaunchVcpuCall(vm_id)

SpecManager == Init /\ [][NextManager]_vars

(***************************************************************************)
(* Concurrent callers.  Each shared access of a method is one step: a      *)
(* membership test, a read or an assignment of a dict entry is atomic in   *)
(* the interpreter, and another caller may run between any two of them.    *)
(***************************************************************************)
\* caller t moves to rec
ThreadStep(t, rec) == threads' = [threads EXCEPT ![t] = rec]

\* caller t has returned and makes no call
ThreadFinish(t) ==
  /\ threads[t].pc = "done"
  /\ ThreadStep(t, Idle)
  /\ UNCHANGED << kmsVars, tokenVars, ret, enclVars, regVars, sevVars >>

\* caller t enters kms.derive_key(identity, context); line 32
DkBegin(t, identity, context) ==
  /\ threads[t].pc = "idle"
  /\ ThreadStep(t, [Idle EXCEPT !.pc = "dk_test", !.op = "derive_key",
                                !.arg = << identity, context >>])
  /\ UNCHANGED << kmsVars, tokenVars, ret, enclVars, regVars, sevVars >>

\* line 33: if cache_key in self._cache
DkTest(t) ==
  /\ threads[t].pc = "dk_test"
  /\ ThreadStep(t, [threads[t] EXCEPT !.pc =
                      IF CacheKey(threads[t].arg[1], threads[t].arg[2]) \in DOMAIN cache
                        THEN "dk_hit" ELSE "dk_derive"])
  /\ UNCHANGED << kmsVars, tokenVars, ret, enclVars, regVars, sevVars >>

\* line 34: return self._cache[cache_key]
DkHit(t) ==
  /\ threads[t].pc = "dk_hit"
  /\ ThreadStep(t, [threads[t] EXCEPT !.pc = "done", !.result =
                      cache[CacheKey(threads[t].arg[1], threads[t].arg[2])]])
  /\ UNCHANGED << kmsVars, tokenVars, ret, enclVars, regVars, sevVars >>

\* lines 36-38: salt, key and wrapped are computed
DkDerive(t) ==
  /\ threads[t].pc = "dk_derive"
  /\ ThreadStep(t, [threads[t] EXCEPT !.pc = "dk_insert", !.local =
                      DeriveFresh(threads[t].arg[1], threads[t].arg[2])])
  /\ UNCHANGED << kmsVars, tokenVars, ret, enclVars, regVars, sevVars >>

\* lines 39-40, p being the cache after the insert and the key returned
DkInserted(t, p) ==
  /\ cache' = p.cache
  /\ ThreadStep(t, [threads[t] EXCEPT !.pc = "done", !.result = p.key])
  /\ UNCHANGED << derived, tokenVars, ret, enclVars, regVars, sevVars >>

DkInsert(t) ==
  /\ threads[t].pc = "dk_insert"
  /\ DkInserted(t, Populate(cache, CacheKey(threads[t].arg[1], threads[t].arg[2]),
                            threads[t].local))

\* the key "secret" of the dict the workload seals, and d[key] on a dict
SecretKey == << 115, 101, 99, 114, 101, 116 >>
DictGet(d, key) == d[CHOOSE i \in 1..Len(d) : d[i][1] = key][2]

\* caller t enters the route compute with the workload sealed_secret
WlBegin(t, name, identity, secret) ==
  /\ threads[t].pc = "idle"
  /\ ThreadStep(t, [Idle EXCEPT !.pc = "wl_lookup", !.op = "sealed_secret",
                                !.arg = << name, identity, secret >>])
  /\ UNCHANGED << kmsVars, tokenVars, ret, enclVars, regVars, sevVars >>

\* lines 109-112 of compute, r being what get_or_create gave: an enclave
\* that is not loaded ends the request
WlFound(t, r) ==
  /\ heap' = r.heap
  /\ registry' = r.instances
  /\ ThreadStep(t, IF r.heap[r.value].loaded
                     THEN [threads[t] EXCEPT !.pc = "wl_seal", !.local = r.value]
                     ELSE [threads[t] EXCEPT !.pc = "done", !.result = "InvalidState"])
  /\ UNCHANGED << kmsVars, tokenVars, ret, enclVars, sevVars >>

WlLookup(t) ==
  /\ threads[t].pc = "wl_lookup"
  /\ WlFound(t, GetOrCreate(heap, registry, cache, threads[t].arg[1]))

\* line 31 of sealed_secret_manager: token = seal_fn(identity, {"secret":
\* secret}), r being what seal gave
WlSealed(t, oid, r) ==
  /\ heap' = [heap EXCEPT ![oid] = r.encl]
  /\ cache' = r.cache
  /\ ThreadStep(t, IF r.status = "ok"
                     THEN [threads[t] EXCEPT !.pc = "wl_unseal",
                                             !.local = << oid, r.value >>]
                     ELSE [threads[t] EXCEPT !.pc = "done", !.result = r.status])
  /\ UNCHANGED << registry, derived, tokenVars, ret, enclVars, sevVars >>

WlSeal(t, iv) ==
  /\ threads[t].pc = "wl_seal"
  /\ WlSealed(t, threads[t].local,
              Seal(heap[threads[t].local], cache, threads[t].arg[2],
                   << << SecretKey, threads[t].arg[3] >> >>, iv))

\* lines 32-33: recovered = unseal_fn(identity), and the result returned
WlUnsealed(t, r) ==
  /\ cache' = r.cache
  /\ ThreadStep(t, [threads[t] EXCEPT !.pc = "done", !.result =
                      IF r.status # "ok" THEN r.status
                      ELSE [token |-> threads[t].local[2],
                            recovered |-> DictGet(r.value, SecretKey)]])
  /\ UNCHANGED << derived, tokenVars, ret, enclVars, regVars, sevVars >>

WlUnseal(t) ==
  /\ threads[t].pc = "wl_unseal"
  /\ WlUnsealed(t, Unseal(heap[threads[t].local[1]], cache, threads[t].arg[2]))

\* caller t enters enclave_registry.get_or_create(name)
GcBegin(t, name) ==
  /\ threads[t].pc = "idle"
  /\ ThreadStep(t, [Idle EXCEPT !.pc = "gc_test", !.op = "get_or_create",
                                !.arg = << name >>])
  /\ UNCHANGED << kmsVars, tokenVars, ret, enclVars, regVars, sevVars >>

\* line 153: if name not in self._instances
GcTest(t) ==
  /\ threads[t].pc = "gc_test"
  /\ ThreadStep(t, [threads[t] EXCEPT !.pc =
                      IF threads[t].arg[1] \notin DOMAIN registry
                        THEN "gc_create" ELSE "gc_return"])
  /\ UNCHANGED << kmsVars, tokenVars, ret, enclVars, regVars, sevVars >>

\* lines 154-155: enclave = SimulatedEnclave(name); enclave.load([b"init"]),
\* the new object e getting the next object id
GcCreated(t, oid, e) ==
  /\ heap' = [o \in DOMAIN heap \cup {oid} |-> IF o = oid THEN e ELSE heap[o]]
  /\ ThreadStep(t, [threads[t] EXCEPT !.pc = "gc_insert", !.local = oid])
  /\ UNCHANGED << kmsVars, tokenVars, ret, enclVars, registry, sevVars >>

GcCreate(t) ==
  /\ threads[t].pc = "gc_create"
  /\ GcCreated(t, Cardinality(DOMAIN heap) + 1,
               Load(NewEnclave(threads[t].arg[1], DefaultSigner), cache,
                    DefaultSegments).encl)

\* line 156: self._instances[name] = enclave
GcInsert(t) ==
  /\ threads[t].pc = "gc_insert"
  /\ registry' = [n \in DOMAIN registry \cup {threads[t].arg[1]} |->
                    IF n = threads[t].arg[1] THEN threads[t].local ELSE registry[n]]
  /\ ThreadStep(t, [threads[t] EXCEPT !.pc = "gc_return"])
  /\ UNCHANGED << kmsVars, tokenVars, ret, enclVars, heap, sevVars >>

\* line 157: return self._instances[name]
GcReturn(t) ==
  /\ threads[t].pc = "gc_return"
  /\ ThreadStep(t, [threads[t] EXCEPT !.pc = "done",
                                      !.result = registry[threads[t].arg[1]]])
  /\ UNCHANGED << kmsVars, tokenVars, ret, enclVars, regVars, sevVars >>

\* the route seal, line 146, on the enclave caller t was given: r is what
\* enclave.seal gave
RefSealed(t, r) ==
  /\ heap' = [heap EXCEPT ![threads[t].result] = r.encl]
  /\ cache' = r.cache
  /\ UNCHANGED << derived, tokenVars, ret, enclVars, registry, sevVars, thrVars >>

RefSeal(t, identity, data, iv) ==
  /\ threads[t].pc = "done" /\ threads[t].op = "get_or_create"
  /\ identity \notin DOMAIN heap[threads[t].result].sealed_store
  /\ RefSealed(t, Seal(heap[threads[t].result], cache, identity, data, iv))

(***************************************************************************)
(* SpecConcRegistry: the callers run get_or_create at the same time for    *)
(* the name "e", and seal through the enclave they were given.             *)
(***************************************************************************)
NextConcRegistry ==
  \/ \E t \in Threads : GcBegin(t, EnclaveName)
  \/ \E t \in Threads : GcTest(t)
  \/ \E t \in Threads : GcCreate(t)
  \/ \E t \in Threads : GcInsert(t)
  \/ \E t \in Threads : GcReturn(t)
  \/ \E t \in Threads : RefSeal(t, << 97 >>, DataPlain, IvOf(1))
  \/ \E t \in Threads : ThreadFinish(t)

SpecConcRegistry == Init /\ [][NextConcRegistry]_vars

(***************************************************************************)
(* SpecWorkload: the callers run the sealed_secret workload at the same    *)
(* time on the enclave "e" and the identity "a", with the same secret and  *)
(* with different secrets.                                                 *)
(***************************************************************************)
\* the secrets "v" and "w"
Secrets == {<< 118 >>, << 119 >>}

NextWorkload ==
  \/ \E t \in Threads, secret \in Secrets : WlBegin(t, EnclaveName, << 97 >>, secret)
  \/ \E t \in Threads : WlLookup(t)
  \/ \E t \in Threads : WlSeal(t, IvOf(t))
  \/ \E t \in Threads : WlUnseal(t)
  \/ \E t \in Threads : ThreadFinish(t)

SpecWorkload == Init /\ [][NextWorkload]_vars

(***************************************************************************)
(* SpecConcDerive: the callers run derive_key at the same time, for the    *)
(* same pair and for different pairs, again and again.                     *)
(***************************************************************************)
NextConcDerive ==
  \/ \E t \in Threads, id \in {<< 97 >>, << 98 >>} : DkBegin(t, id, << 99 >>)
  \/ \E t \in Threads : DkTest(t)
  \/ \E t \in Threads : DkHit(t)
  \/ \E t \in Threads : DkDerive(t)
  \/ \E t \in Threads : DkInsert(t)
  \/ \E t \in Threads : ThreadFinish(t)

SpecConcDerive == Init /\ [][NextConcDerive]_vars

(***************************************************************************)
(* SpecCreate: VMs created at any time, os.urandom giving one of two ids,  *)
(* an id it gave before included, and pages and vCPUs given to them        *)
(* through the manager.                                                    *)
(***************************************************************************)
NextCreate ==
  \/ \E vm_id \in {VmA, VmB} : MgrCreateVmCall(OwnerO, vm_id)
  \/ \E vm_id \in DOMAIN vms : MgrEncryptPageCall(vm_id, 2, Demo, IvOf(1))
  \/ \E vm_id \in DOMAIN vms :
       Len(vms[vm_id].vcpus) < MaxVcpus /\ MgrLaunchVcpuCall(vm_id)

SpecCreate == Init /\ [][NextCreate]_vars

(***************************************************************************)
(* SpecRoutes: one VM driven through the manager and the launch route      *)
(* only: created or launched, pages 2 and 10 encrypted in any order and    *)
(* again, vCPUs launched, attested.                                        *)
(***************************************************************************)
NextRoutes ==
  \/ vms = << >> /\ MgrCreateVmCall(OwnerO, VmA)
  \/ vms = << >> /\ LaunchVmCall(OwnerO, VmA)
  \/ \E vm_id \in DOMAIN vms, iv \in Ivs : MgrEncryptPageCall(vm_id, 2, Demo, iv)
  \/ \E vm_id \in DOMAIN vms : MgrEncryptPageCall(vm_id, 10, << 120 >>, IvOf(1))
  \/ \E vm_id \in DOMAIN vms :
       Len(vms[vm_id].vcpus) < MaxVcpus /\ MgrLaunchVcpuCall(vm_id)
  \/ \E vm_id \in DOMAIN vms : MgrAttestCall(vm_id, "nonce")

SpecRoutes == Init /\ [][NextRoutes]_vars

(***************************************************************************)
(* SpecSeal: load, seal and unseal in any order; identity "a" is sealed    *)
(* with either data, identity "b" with the plain data.                     *)
(***************************************************************************)
NextSeal ==
  \/ \E segments \in SegmentLists : EnclaveLoad(segments)
  \/ \E d \in SealData : EnclaveSeal(<< 97 >>, d, IvOf(1))
  \/ EnclaveSeal(<< 98 >>, DataPlain, IvOf(1))
  \/ \E id \in SealIdentities : EnclaveUnseal(id)

SpecSeal == Init /\ [][NextSeal]_vars

(***************************************************************************)
(* SpecLoad: loads that succeed and loads that are refused, on an enclave  *)
(* that is loaded or not and has sealed data or not, and writes to the     *)
(* pages a load made.                                                      *)
(***************************************************************************)
NextLoad ==
  \/ \E segments \in LoadLists \cup BadLoadLists : EnclaveLoad(segments)
  \/ encl.sealed_store = << >> /\ EnclaveSeal(<< 97 >>, DataPlain, IvOf(1))
  \/ \E i \in 1..Len(encl.pages), content \in PageContents :
       EnclavePageWrite(i, content)

SpecLoad == Init /\ [][NextLoad]_vars

(***************************************************************************)
(* SpecEnclave: every method of a SimulatedEnclave that was constructed    *)
(* and not loaded, called directly and through ecall.                      *)
(***************************************************************************)
\* what os.urandom(16) and secrets.token_hex(16) return during a call
Rnd == [iv |-> IvOf(1), nonce |-> "nonce"]

\* the calls made through ecall, as << name, arguments >>: the trusted
\* operations, the other methods, ecall on itself, a data attribute, a
\* workload and a name that no member has
EcallRequests ==
  << << "seal", << << 97 >>, DataPlain >> >>,
     << "unseal", << << 97 >> >> >>,
     << "attest", << "v1" >> >>,
     << "load", << << SegInit >> >> >>,
     << "ocall", << "log", DataPlain >> >>,
     << "enter", << "mrenclave" >> >>,
     << "_measure", << << MemoryPageOf(0, SegEvil) >> >> >>,
     << "__init__", << EnclaveName >> >>,
     << "ecall", << "load", << << SegInit >> >> >> >>,
     << "mrenclave", << >> >>,
     << "keyword_search", << >> >>,
     << "bogus", << >> >> >>

NextEnclave ==
  \/ \E segments \in {<< SegInit >>} \cup BadSegmentLists : EnclaveLoad(segments)
  \/ \E id \in {<< 97 >>, << >>} : EnclaveSeal(id, DataPlain, Rnd.iv)
  \/ EnclaveUnseal(<< 97 >>)
  \/ EnclaveAttest("v1", Rnd.nonce)
  \/ EnclaveOcall("log", DataPlain)
  \/ EnclaveEnter("mrenclave")
  \/ \E i \in 1..Len(EcallRequests) :
       EnclaveEcall(EcallRequests[i][1], EcallRequests[i][2], Rnd)

SpecEnclave == Init /\ [][NextEnclave]_vars

(***************************************************************************)
(* SpecCrypt: encrypt and decrypt over all keys, plaintexts and ivs.       *)
(***************************************************************************)
NextCrypt ==
  \/ tkey = NoValue /\ \E k \in Keys, p \in Plaintexts, iv \in Ivs : KmsEncrypt(k, p, iv)
  \/ \E k \in Keys : KmsDecrypt(k)

SpecCrypt == Init /\ [][NextCrypt]_vars

(***************************************************************************)
(* SpecTamper: tokens altered between encrypt and decrypt.                 *)
(***************************************************************************)
TamperKey == DeriveFresh(<< 97 >>, << 99 >>)

NextTamper ==
  \/ tkey = NoValue /\ \E p \in ShortPlaintexts, iv \in Ivs : KmsEncrypt(TamperKey, p, iv)
  \/ \E i \in 1..Len(token) : \E c \in TamperChars \cup {Neighbour(token[i])} : Tamper(i, c)
  \/ \E n \in 0..(Len(token) - 1) : Truncate(n)
  \/ KmsDecrypt(TamperKey)

SpecTamper == Init /\ [][NextTamper]_vars

(***************************************************************************)
(* SpecDerive: derive_key calls interleaved with encrypt and decrypt.      *)
(***************************************************************************)
NextDerive ==
  \/ \E id \in Identities, ctx \in Contexts : KmsDeriveKey(id, ctx)
  \/ \E k \in {cache[ck] : ck \in DOMAIN cache} : KmsEncrypt(k, PlainOf(3, 1), IvOf(1))
  \/ \E k \in {cache[ck] : ck \in DOMAIN cache} : KmsDecrypt(k)

SpecDerive == Init /\ [][NextDerive]_vars

(***************************************************************************)
(* Properties of the key service.                                          *)
(***************************************************************************)
\* C1: decrypting, under the key it was made with, a token that encrypt
\* returned and nobody altered succeeds and returns exactly the plaintext,
\* for every key, plaintext length (0 to several keystream blocks) and iv.
RoundTrip ==
  (ret.op = "decrypt" /\ ret.arg = tkey /\ tampered = "no")
    => (ret.status = "ok" /\ ret.value = tplain)

\* a plaintext longer than one keystream block came back from decrypt
RoundTripLongPlaintext ==
  /\ ret.op = "decrypt" /\ ret.arg = tkey /\ tampered = "no"
  /\ Len(tplain) > MacLen
  /\ ret.status = "ok"

\* C2: a token of which at least one character was changed is never
\* decrypted: decrypt fails with IntegrityError or MalformedToken.
TamperedTokenRejected ==
  (ret.op = "decrypt" /\ tampered = "changed")
    => ret.status \in {"IntegrityError", "MalformedToken"}

\* C3: a token that does not decode, or decodes to fewer than 48 bytes
\* (16-byte iv + 32-byte tag), makes decrypt fail with MalformedToken.
ShortTokenIsMalformed ==
  LET dec == UrlsafeB64Decode(token)
  IN  (ret.op = "decrypt" /\ (~dec.ok \/ Len(dec.data) < IvLen + MacLen))
        => ret.status = "MalformedToken"

\* C4: derive_key returns what an uncached derivation of its arguments
\* returns, whatever was derived before, and two different pairs
\* (identity, context) never receive the same key.
DeriveKeyIsPure ==
  /\ ret.op = "derive_key" => ret.value = DeriveFresh(ret.arg[1], ret.arg[2])
  /\ \A p \in DOMAIN derived : \A q \in DOMAIN derived :
       p # q => derived[p].key # derived[q].key

\* C5: every derive_key call returns the key the first call with the same
\* (identity, context) returned, whatever calls came in between, and no step
\* changes or removes a cache entry.
DeriveKeyStable ==
  [][/\ \A ck \in DOMAIN cache : ck \in DOMAIN cache' /\ cache'[ck] = cache[ck]
     /\ (ret'.op = "derive_key" /\ ret'.arg \in DOMAIN derived)
          => ret'.value = derived[ret'.arg].key]_vars

\* a pair was derived a second time, after an encrypt, with other pairs
\* derived as well
DerivedAgain ==
  /\ ret.op = "derive_key"
  /\ derived[ret.arg].again
  /\ Cardinality(DOMAIN derived) > 1
  /\ tkey # NoValue

(***************************************************************************)
(* Properties of sealing.                                                  *)
(***************************************************************************)
\* C6: on a loaded enclave on which no load succeeded since identity id was
\* sealed last, unseal(id) succeeds and returns exactly the data of the most
\* recent seal(id, data), whatever was sealed before under id or under other
\* identities.
SealLastWriteWins ==
  \A id \in DOMAIN hist.sealed :
    (ret.op = "unseal" /\ ret.arg = << id >> /\ encl.loaded /\ ~hist.sealed[id].reloaded)
      => (ret.status = "ok" /\ ret.value = hist.sealed[id].data)

\* "a" was sealed a second time, "b" was sealed as well, no load came after,
\* and unseal("a") returned the data with the escaped characters
SecondSealUnsealed ==
  /\ ret.op = "unseal" /\ ret.arg = << << 97 >> >> /\ ret.status = "ok"
  /\ SealIdentities \subseteq DOMAIN hist.sealed
  /\ hist.sealed[<< 97 >>].again
  /\ \A id \in SealIdentities : ~hist.sealed[id].reloaded
  /\ ret.value = DataEscaped

\* C9 as the spec states it: once the measurement has differed from the one
\* identity id was sealed under, no later unseal(id) returns the sealed data,
\* unless id is sealed anew.
PermanentlyUnrecoverable ==
  \A id \in DOMAIN hist.sealed :
    (ret.op = "unseal" /\ ret.arg = << id >> /\ hist.sealed[id].moved)
      => ~(ret.status = "ok" /\ ret.value = hist.sealed[id].data)

\* C9 as the code has it: unseal(id) fails with IntegrityError in every state
\* whose measurement differs from the one id was sealed under, and returns
\* the sealed data in every state whose measurement equals it, also after
\* loads that gave other measurements in between.
UnrecoverableWhileMeasurementDiffers ==
  \A id \in DOMAIN hist.sealed :
    (ret.op = "unseal" /\ ret.arg = << id >>)
      => IF encl.mrenclave # hist.sealed[id].mr
           THEN ret.status = "IntegrityError" /\ ret.value = NoValue
           ELSE ret.status = "ok" /\ ret.value = hist.sealed[id].data

\* unseal failed under a measurement other than the one the data was sealed
\* under
UnsealFailedAfterReload ==
  \E id \in DOMAIN hist.sealed :
    /\ ret.op = "unseal" /\ ret.arg = << id >>
    /\ hist.sealed[id].moved /\ hist.sealed[id].reloaded
    /\ encl.mrenclave # hist.sealed[id].mr
    /\ ret.status = "IntegrityError"

(***************************************************************************)
(* Properties of the enclave life cycle.                                   *)
(***************************************************************************)
\* C7: on an enclave that is not loaded and on which no load ever succeeded,
\* every call of seal, unseal, attest and ecall fails with InvalidState and
\* leaves the enclave as it was (calls that are refused for their arguments
\* or for the name of the operation are left aside).
UninitializedRejects ==
  [][(/\ ~encl.loaded /\ ~hist.loads
      /\ ret'.op \in {"seal", "unseal", "attest", "ecall"}
      /\ ret'.status \notin {"InvalidArgument", "UnknownOperation"})
       => (ret'.status = "InvalidState" /\ encl' = encl)]_vars

\* C8: ecall runs a method only for a name in the fixed set of trusted
\* operations; for every other name, the names of other members of the
\* enclave included, it fails with UnknownOperation and leaves the enclave as
\* it was.
EcallOnlyTrusted ==
  [][(/\ ret'.op = "ecall"
      /\ ret'.arg[1] \notin {"seal", "unseal", "attest", "keyword_search",
                             "sealed_secret", "inference", "counter"})
       => (ret'.status = "UnknownOperation" /\ encl' = encl)]_vars

\* C10: attest on a loaded enclave reports the measurement the most recent
\* successful load computed, the signer of the enclave and the policy version
\* given, and leaves the enclave as it was; seal, unseal and ocall leave the
\* measurement as it was; and no step but a load changes the measurement.
MeasurementOnlyThroughLoad ==
  [][/\ (ret'.did = "attest" /\ encl.loaded)
          => /\ ret'.value.mrenclave = hist.measured
             /\ ret'.value.signer = encl.signer
             /\ ret'.value.policy_version =
                  (IF ret'.op = "attest" THEN ret'.arg[1] ELSE ret'.arg[2][1])
             /\ encl' = encl
     /\ ret'.did \in {"seal", "unseal", "ocall"} => encl'.mrenclave = encl.mrenclave
     /\ encl'.mrenclave # encl.mrenclave => ret'.did = "load"]_vars

\* C17: unseal(identity) fails with NoSealedData exactly when no seal for
\* that identity ever succeeded on this enclave instance, and such a failure
\* leaves the sealed store and the measurement as they were; a seal with an
\* empty identity is rejected and stores nothing.
NoSealedDataIffNeverSealed ==
  [][/\ ret'.op = "unseal" =>
          /\ (ret'.status = "NoSealedData") <=> (ret'.arg[1] \notin hist'.ever)
          /\ ret'.status = "NoSealedData" =>
                /\ encl'.sealed_store = encl.sealed_store
                /\ encl'.mrenclave = encl.mrenclave
     /\ (ret'.op = "seal" /\ ret'.arg[1] = << >>) =>
          /\ ret'.status = "InvalidArgument"
          /\ encl' = encl]_vars

\* the bytes of segments[i..] one after the other
RECURSIVE SegmentsData(_, _)
SegmentsData(segments, i) ==
  IF i > Len(segments) THEN << >>
  ELSE segments[i] \o SegmentsData(segments, i + 1)

\* C18: load with an empty list, or with an empty segment at any position,
\* fails with InvalidSegments and leaves the enclave exactly as it was (pages,
\* measurement, loaded flag and sealed store), also when it was loaded; a
\* successful load sets loaded and the measurement to the digest of the page
\* data in load order followed by name and signer, and returns it.
LoadAllOrNothing ==
  [][ret'.op = "load" =>
       IF \/ ret'.arg[1] = << >>
          \/ \E i \in 1..Len(ret'.arg[1]) : ret'.arg[1][i] = << >>
         THEN ret'.status = "InvalidArgument" /\ encl' = encl
         ELSE /\ ret'.status = "ok"
              /\ encl'.loaded
              /\ encl'.mrenclave =
                   HexOf(Sha256((SegmentsData(ret'.arg[1], 1) \o encl.name)
                                  \o encl.signer))
              /\ ret'.value = encl'.mrenclave
              /\ encl'.sealed_store = encl.sealed_store]_vars

\* a load with an empty first segment was refused on an enclave that has
\* sealed data and was loaded with b"evil", b"init"; its measurement is the
\* digest of "evilinit", name, signer and not the one of "initevil"
RefusedLoadAfterLoad ==
  /\ ret.op = "load" /\ ret.arg = << << << >>, SegInit >> >>
  /\ ret.status = "InvalidArgument"
  /\ encl.loaded /\ encl.sealed_store # << >>
  /\ Len(encl.pages) = 2 /\ encl.pages[1].data = SegEvil /\ encl.pages[2].data = SegInit
  /\ encl.mrenclave = HexOf(Sha256(((SegEvil \o SegInit) \o encl.name) \o encl.signer))
  /\ encl.mrenclave # HexOf(Sha256(((SegInit \o SegEvil) \o encl.name) \o encl.signer))

\* C20: after every load and every page write each page holds at most size
\* bytes; a write of more than size bytes fails with Overflow and leaves the
\* data of the page as it was, a write of at most size bytes stores the content.
PageWithinSize ==
  [][/\ \A i \in 1..Len(encl'.pages) :
          Len(encl'.pages[i].data) <= encl'.pages[i].size
     /\ ret'.op = "page.write" =>
          IF Len(ret'.arg[2]) > encl.pages[ret'.arg[1]].size
            THEN ret'.status = "Overflow" /\ encl' = encl
            ELSE /\ ret'.status = "ok"
                 /\ encl'.pages[ret'.arg[1]].data = ret'.arg[2]
                 /\ encl'.pages[ret'.arg[1]].size = encl.pages[ret'.arg[1]].size]_vars

\* b"demo!" was refused on the second page, of four bytes, which holds the
\* b"x" written to it before
OversizeWriteRefused ==
  /\ ret.op = "page.write" /\ ret.arg = << 2, Demo \o << 33 >> >>
  /\ ret.status = "Overflow"
  /\ Len(encl.pages) = 2 /\ encl.pages[2].size = 4 /\ encl.pages[2].data = << 120 >>

\* C21: the life cycle is one-way: once a load has succeeded the enclave is
\* loaded in every later state, whatever calls of load, seal, unseal, attest,
\* ecall and ocall follow, succeeding or failing; and while it is loaded its
\* measurement is a digest of 64 hex characters.
LifecycleOneWay ==
  /\ hist.loads => encl.loaded
  /\ encl.loaded => Len(encl.mrenclave) = 64

(***************************************************************************)
(* Properties of the launch manager's create_vm.                           *)
(***************************************************************************)
\* C22 as the spec states it: create_vm always adds a VM under an id no VM
\* of the manager has, the number of VMs grows by exactly one, the new VM has
\* no pages, no vCPUs and no measurement, and every VM created before stays
\* stored and unchanged.
CreateVmAlwaysAddsOne ==
  [][ret'.op = "create_vm" =>
       /\ ret'.value \notin DOMAIN vms
       /\ Cardinality(DOMAIN vms') = Cardinality(DOMAIN vms) + 1
       /\ vms'[ret'.value] = NewVm(ret'.value, ret'.arg[1])
       /\ \A v \in DOMAIN vms : v \in DOMAIN vms' /\ vms'[v] = vms[v]]_vars

\* C22 as the code has it: create_vm stores a VM without pages, vCPUs and
\* measurement under the id generated and leaves every VM stored under
\* another id unchanged; when no VM has that id the number of VMs grows by
\* exactly one, and when a VM has it that VM is replaced by the new one and
\* the number stays.
CreateVmAddsOrReplaces ==
  [][ret'.op = "create_vm" =>
       /\ DOMAIN vms' = DOMAIN vms \cup {ret'.value}
       /\ vms'[ret'.value] = NewVm(ret'.value, ret'.arg[1])
       /\ \A v \in DOMAIN vms \ {ret'.value} : vms'[v] = vms[v]
       /\ Cardinality(DOMAIN vms') =
            Cardinality(DOMAIN vms) + (IF ret'.value \in DOMAIN vms THEN 0 ELSE 1)]_vars

\* a second VM was created under a new id beside one that has a page, two
\* vCPUs and a measurement
CreatedBesideVm ==
  /\ ret.op = "create_vm" /\ ret.value = VmB
  /\ DOMAIN vms = {VmA, VmB}
  /\ vms[VmB] = NewVm(VmB, OwnerO)
  /\ vms[VmA].memory.pages # << >> /\ Len(vms[VmA].vcpus) = 2
  /\ vms[VmA].measurement # None

\* C23: when VMs are driven only through create_vm, the launch route and
\* the manager's encrypt_page, launch_vcpu and attest, the cached measurement
\* is never stale: in every state it is absent or the digest of the current
\* pages; the measurement encrypt_page returns is the one cached and covers
\* the page just written; and attest returns the current digest.
NeverStaleThroughManager ==
  /\ \A v \in DOMAIN vms :
        vms[v].measurement = None \/ vms[v].measurement = MeasurementOf(vms[v])
  /\ (ret.op = "encrypt_page" /\ ret.status = "ok") =>
        /\ ret.value.measurement = vms[ret.arg[1]].measurement
        /\ ret.value.measurement # None
        /\ HasPage(vms[ret.arg[1]].memory.pages, ret.arg[2])
        /\ GetPage(vms[ret.arg[1]].memory.pages, ret.arg[2]).ciphertext =
             vmhist.written[<< ret.arg[1], ret.arg[2] >>].token
        /\ vmhist.written[<< ret.arg[1], ret.arg[2] >>].data = ret.arg[3]
  /\ (ret.op = "attest" /\ ret.status = "ok") =>
        ret.value.measurement = MeasurementOf(vms[ret.arg[1]])

\* attest reported the measurement of a launched VM to which page 10 was
\* written before page 2, page 2 a second time, and a second vCPU added since
AttestedAfterWrites ==
  /\ ret.op = "attest" /\ ret.status = "ok" /\ ret.arg = << VmA >>
  /\ Len(vms[VmA].memory.pages) = 2 /\ vms[VmA].memory.pages[1].page_id = 10
  /\ vmhist.written[<< VmA, 2 >>].again
  /\ Len(vms[VmA].vcpus) = 2
  /\ ret.value.measurement = vms[VmA].measurement
  /\ ret.value.measurement # MeasurementOf(NewVm(VmA, OwnerO))

(***************************************************************************)
(* Properties of concurrent callers.                                       *)
(***************************************************************************)
\* C24: when callers run derive_key at the same time for the same (identity,
\* context), the test of the cache, the derivation and the insert interleaved
\* in any order, every caller receives the same key, the cache holds one
\* entry for the pair with that key once a caller has returned, and no
\* interleaving leaves another or a partial value in the cache.
ConcurrentDeriveConverges ==
  /\ \A t \in Threads :
        (threads[t].op = "derive_key" /\ threads[t].pc = "done") =>
          /\ threads[t].result = DeriveFresh(threads[t].arg[1], threads[t].arg[2])
          /\ CacheKey(threads[t].arg[1], threads[t].arg[2]) \in DOMAIN cache
          /\ cache[CacheKey(threads[t].arg[1], threads[t].arg[2])] = threads[t].result
  /\ \A t \in Threads : \A u \in Threads :
        (/\ threads[t].op = "derive_key" /\ threads[t].pc = "done"
         /\ threads[u].op = "derive_key" /\ threads[u].pc = "done"
         /\ threads[t].arg = threads[u].arg)
          => threads[t].result = threads[u].result
  /\ \A ck \in DOMAIN cache : Len(cache[ck]) = 32
  /\ \A id \in {<< 97 >>, << 98 >>} :
        CacheKey(id, << 99 >>) \in DOMAIN cache =>
          cache[CacheKey(id, << 99 >>)] = DeriveFresh(id, << 99 >>)

\* two callers raced for the same pair: both found the cache empty, both
\* derived and inserted, and both have returned
BothDerivedSamePair ==
  /\ threads[1].op = "derive_key" /\ threads[1].pc = "done"
  /\ threads[2].op = "derive_key" /\ threads[2].pc = "done"
  /\ threads[1].arg = threads[2].arg
  /\ threads[1].local # << >> /\ threads[2].local # << >>
  /\ threads[1].result = threads[2].result
  /\ DOMAIN cache = {CacheKey(threads[1].arg[1], threads[1].arg[2])}

\* C25: the sealed_secret workload returns recovered equal to the secret of
\* the same request, also when requests for the same enclave and identity
\* with different secrets run at the same time and their seal and unseal
\* steps interleave.
WorkloadRecoversOwnSecret ==
  \A t \in Threads :
    (threads[t].op = "sealed_secret" /\ threads[t].pc = "done") =>
      threads[t].result.recovered = threads[t].arg[3]

\* C26: when callers run get_or_create at the same time for the same new
\* name, the membership test, the creation and load and the insert
\* interleaved in any order, at most one enclave is ever created for the
\* name, the callers receive that same instance, and it is the instance
\* every later lookup finds, so that data sealed through one caller's
\* reference is visible through the others' and through the registry.
OneInstancePerName ==
  /\ \A o \in DOMAIN heap : \A q \in DOMAIN heap :
        heap[o].name = heap[q].name => o = q
  /\ \A t \in Threads : \A u \in Threads :
        (/\ threads[t].op = "get_or_create" /\ threads[t].pc = "done"
         /\ threads[u].op = "get_or_create" /\ threads[u].pc = "done"
         /\ threads[t].arg = threads[u].arg)
          => threads[t].result = threads[u].result
  /\ \A t \in Threads :
        (threads[t].op = "get_or_create" /\ threads[t].pc = "done") =>
          /\ threads[t].result = registry[threads[t].arg[1]]
          /\ heap[threads[t].result].sealed_store =
               heap[registry[threads[t].arg[1]]].sealed_store

(***************************************************************************)
(* Properties of the enclave registry.                                     *)
(***************************************************************************)
\* C11: get_or_create is idempotent per name: no step removes or replaces an
\* entry of the registry; a call for a name that has an instance returns that
\* instance and changes no instance (its sealed store included); a call for a
\* new name returns a new instance that is loaded with the measurement of the
\* default segment, and changes no other instance.
GetOrCreateIdempotent ==
  [][/\ \A n \in DOMAIN registry :
          n \in DOMAIN registry' /\ registry'[n] = registry[n]
     /\ ret'.op = "get_or_create" =>
          /\ ret'.value = registry'[ret'.arg[1]]
          /\ IF ret'.arg[1] \in DOMAIN registry
               THEN heap' = heap /\ registry' = registry
               ELSE /\ ret'.value \notin DOMAIN heap
                    /\ DOMAIN heap' = DOMAIN heap \cup {ret'.value}
                    /\ \A o \in DOMAIN heap : heap'[o] = heap[o]
                    /\ heap'[ret'.value].loaded
                    /\ heap'[ret'.value].sealed_store = << >>
                    /\ heap'[ret'.value].mrenclave =
                         HexOf(Sha256((DefaultSegments[1] \o Utf8Encode(ret'.arg[1]))
                                      \o Utf8Encode(DefaultSigner)))]_vars

\* get_or_create returned an instance that holds sealed data, while the
\* registry holds an instance for the other name as well
ExistingInstanceReturned ==
  /\ ret.op = "get_or_create"
  /\ heap[ret.value].sealed_store # << >>
  /\ DOMAIN registry = RegistryNames

(***************************************************************************)
(* Properties of the encrypted memory.                                     *)
(***************************************************************************)
\* C14: a read of a page returns the data of the most recent write to that
\* page, whatever was written to it before and to other pages since (the page
\* being as write stored it); and when the same bytes are written to a page
\* twice in a row under different ivs, the second token differs from the first.
StoreLastWriteWins ==
  \A k \in DOMAIN vmhist.written :
    /\ (ret.op = "memory.read" /\ ret.arg = k /\ ~vmhist.written[k].altered)
         => (ret.status = "ok" /\ ret.value = vmhist.written[k].data)
    /\ (/\ vmhist.written[k].again
        /\ vmhist.written[k].pdata = vmhist.written[k].data
        /\ vmhist.written[k].piv # vmhist.written[k].iv)
         => vmhist.written[k].token # vmhist.written[k].ptoken

\* page 2 was written twice with the same bytes under different ivs, page 10
\* was written as well, and a read of page 2 returned the bytes
SameBytesWrittenTwice ==
  /\ ret.op = "memory.read" /\ ret.status = "ok"
  /\ ret.arg[2] = 2
  /\ \E k \in DOMAIN vmhist.written : k[2] = 10
  /\ vmhist.written[ret.arg].again
  /\ vmhist.written[ret.arg].pdata = vmhist.written[ret.arg].data
  /\ vmhist.written[ret.arg].piv # vmhist.written[ret.arg].iv

\* C15: read fails with PageNotFound for a page that is absent; for a page
\* whose stored digest disagrees with its token it fails with IntegrityError,
\* the digest being compared before the token is decrypted; and it returns
\* plaintext only for a page whose digest agrees with its token.
ReadChecksDigestFirst ==
  ret.op = "memory.read" =>
    IF ~HasPage(vms[ret.arg[1]].memory.pages, ret.arg[2])
      THEN ret.status = "PageNotFound"
    ELSE IF ~Verify(GetPage(vms[ret.arg[1]].memory.pages, ret.arg[2]).ciphertext,
                    GetPage(vms[ret.arg[1]].memory.pages, ret.arg[2]).mac)
      THEN ret.status = "IntegrityError"
    ELSE ret.status \in {"ok", "IntegrityError", "MalformedToken"}

(***************************************************************************)
(* Properties of the VM measurement.                                       *)
(***************************************************************************)
\* C12: a measure call leaves the pages as it found them, and it returns the
\* digest of the measure call before it on a VM of that vm_id and owner
\* exactly when the set of (page_id, token) pairs is the one that call found:
\* the same without a write in between, another one after a write that stored
\* a new token, and the same for the same pairs written in another order.
MeasureFollowsPairs ==
  /\ \A k \in DOMAIN vmhist.measures :
       vmhist.measures[k].had =>
         (vmhist.measures[k].same_digest <=> vmhist.measures[k].same_pairs)
  /\ ret.op = "vm.measure" =>
       /\ vms[ret.arg[1]].memory.pages = vmhist.measures[ret.arg[1]].pages
       /\ ret.value = vmhist.measures[ret.arg[1]].digest

\* measure found both pages with the tokens the measure before had found,
\* stored in the other order
MeasuredInOtherOrder ==
  /\ ret.op = "vm.measure"
  /\ vmhist.measures[ret.arg[1]].reordered
  /\ Len(vmhist.measures[ret.arg[1]].pages) = 2

\* C13: the measurement in the report of attest is the digest that measure
\* computes over the pages the VM holds at the time of the call.
AttestReportsCurrentPages ==
  (ret.op \in {"attest", "vm.attest"} /\ ret.status = "ok")
    => ret.value.measurement = MeasurementOf(vms[ret.arg[1]])

(***************************************************************************)
(* Properties of the launch manager.                                       *)
(***************************************************************************)
\* C16: encrypt_page, launch_vcpu and attest of the manager with a vm_id it
\* does not hold fail with VmNotFound and change neither the VMs of the
\* manager (none is created, no page, vCPU or measurement changes) nor the
\* key cache.
UnknownVmRefused ==
  [][(/\ ret'.op \in {"encrypt_page", "launch_vcpu", "attest"}
      /\ ret'.arg[1] \notin DOMAIN vms)
       => (ret'.status = "VmNotFound" /\ vms' = vms /\ cache' = cache)]_vars

\* encrypt_page was refused for the unknown vm_id while the manager holds a
\* VM with a page, a vCPU and a measurement
RefusedBesideVm ==
  /\ ret.op = "encrypt_page" /\ ret.status = "VmNotFound"
  /\ \E vm_id \in DOMAIN vms :
       /\ vms[vm_id].memory.pages # << >>
       /\ vms[vm_id].vcpus # << >>
       /\ vms[vm_id].measurement # None

\* C19: after every step the i-th vCPU of every VM has id i - 1 and the
\* registers rip = 0 and rsp = 0; and a launch_vcpu call appends one vCPU,
\* returns its id and leaves the pages and the cached measurement of the VM
\* as they were.
VcpusSequential ==
  [][/\ \A vm_id \in DOMAIN vms' : \A i \in 1..Len(vms'[vm_id].vcpus) :
          vms'[vm_id].vcpus[i] = [id |-> i - 1, registers |-> [rip |-> 0, rsp |-> 0]]
     /\ (ret'.op \in {"launch_vcpu", "vm.launch_vcpu"} /\ ret'.status = "ok")
          => /\ Len(vms'[ret'.arg[1]].vcpus) = Len(vms[ret'.arg[1]].vcpus) + 1
             /\ vms'[ret'.arg[1]].memory = vms[ret'.arg[1]].memory
             /\ vms'[ret'.arg[1]].measurement = vms[ret'.arg[1]].measurement]_vars

\* a second vCPU was launched on a VM that holds a page and a measurement
SecondVcpuLaunched ==
  /\ ret.op \in {"launch_vcpu", "vm.launch_vcpu"} /\ ret.status = "ok"
  /\ Len(vms[ret.arg[1]].vcpus) = 2
  /\ vms[ret.arg[1]].memory.pages # << >>
  /\ vms[ret.arg[1]].measurement # None

=============================================================================
